---- MODULE Spec2Model ----
(***************************************************************************)
(* Google Calendar MCP server: the natural-language date/time normalizer   *)
(* (utils/natural-datetime-parser), the create-event handler               *)
(* (handlers/core/CreateEventHandler) and getAuthenticatedClient           *)
(* (auth/tokenFetcher, utils/tokenFetcher).                                *)
(*                                                                         *)
(* Text is a TLA+ string; the character at position i of s is              *)
(* SubSeq(s, i, i), positions counting from 1.                             *)
(***************************************************************************)
EXTENDS Integers, Sequences, FiniteSets, TLC

VARIABLES
    \* ---- one call of parseNaturalDateTime and one re-normalization ----
    input,        \* the `input` argument
    timezone,     \* the `timezone` argument, an IANA name
    now,          \* the instant `new Date()` returns: [day, hour] in UTC
    normPc,       \* "call" | "parsed" | "reparsed"
    parsed,       \* what parseNaturalDateTime(input, timezone) returned
    reparsed,     \* what parseNaturalDateTime(parsed.datetime, timezone) returned
    \* ---- one call of CreateEventHandler.runTool ----
    args,         \* the validated arguments of the call
    calendar,     \* the existing events of the user's calendars
    createPc,     \* "start" | "fetching" | "detected" | "creating" | "inserting" | "done" | "failed"
    requested,    \* the calendars whose events the detector asked for
    pending,      \* the calendars whose fetch has not returned yet
    succeeded,    \* the calendars whose fetch returned events
    arrived,      \* the events fetched, in the order they arrived
    fetchCalls,   \* the fetches of existing events issued so far
    detectorThreshold, \* the duplicateSimilarityThreshold passed to checkConflicts
    conflicts,    \* the report checkConflicts returned
    insertCalls,  \* the calls of calendar.events.insert made so far
    outcome,      \* the response returned, or the error thrown
    \* ---- one call of getAuthenticatedClient ----
    version,      \* "auth" (auth/tokenFetcher) | "utils" (utils/tokenFetcher)
    user_id,      \* the user id argument
    provider,     \* the provider argument
    tokenResponse, \* what getOAuthTokens resolves to
    authPc,       \* "start" | "fetching" | "initializing" | "returned" | "rejected"
    storeCalls,   \* the calls of getOAuthTokens made so far
    authOutcome,  \* the client returned, or the error thrown
    \* ---- one tool request through a server ----
    serverKind,   \* "fastmcp" | "stored" | "params"
    toolName,     \* the tool the request names
    request,      \* the arguments of the request
    storedTokensValid, \* what tokenManager.validateTokens() resolves to
    srvPc,        \* "callback" | "execute" | "authenticated" | "done" | "failed"
                  \* | "rejected" (the handlerFunction has thrown)
    handlerArgs,  \* the arguments after validation and the handlerFunction
    credentials,  \* <<c>>: the credentials set on the client; <<>>: none yet
    runToolArgs,  \* <<a>>: the arguments runTool was called with; <<>>: not called
    runToolCalls, \* the calls of handler.runTool made so far
    srvOutcome,   \* the result returned, or the error thrown
    \* ---- one tool request through validation ----
    schTool,      \* the tool the request names
    schArgs,      \* the arguments of the request
    schNow,       \* the instant of the request: [day, hour] in UTC
    schPc,        \* "received" | "normalized" | "validated" | "handled" | "rejected"
    schNormalized, \* the arguments after normalizeDateTimeFields
    schValidated, \* <<a>>: the arguments schema.parse returned; <<>>: none
    schHandlerCalls, \* the calls of executeWithHandler made so far
    schOutcome    \* the result returned, or the error thrown

normVars == <<input, timezone, now, normPc, parsed, reparsed>>

createVars == <<args, calendar, createPc, requested, pending, succeeded, arrived,
                fetchCalls, detectorThreshold, conflicts, insertCalls, outcome>>

authVars == <<version, user_id, provider, tokenResponse, authPc, storeCalls,
              authOutcome>>

serverVars == <<serverKind, toolName, request, storedTokensValid, srvPc, handlerArgs,
                credentials, runToolArgs, runToolCalls, srvOutcome>>

schemaVars == <<schTool, schArgs, schNow, schPc, schNormalized, schValidated,
                schHandlerCalls, schOutcome>>

vars == <<input, timezone, now, normPc, parsed, reparsed,
          args, calendar, createPc, requested, pending, succeeded, arrived,
          fetchCalls, detectorThreshold, conflicts, insertCalls, outcome,
          version, user_id, provider, tokenResponse, authPc, storeCalls,
          authOutcome,
          serverKind, toolName, request, storedTokensValid, srvPc, handlerArgs,
          credentials, runToolArgs, runToolCalls, srvOutcome,
          schTool, schArgs, schNow, schPc, schNormalized, schValidated,
          schHandlerCalls, schOutcome>>

(***************************************************************************)
(* Bounds of the model.                                                    *)
(***************************************************************************)
\* the current UTC date ranges over 2024-01-15 .. 2024-01-15 + MaxNowSpan
MaxNowSpan == 6
\* the day count N of "in N days" ranges over 0 .. MaxRelDays
MaxRelDays == 5
\* the checked calendar holds at most MaxExisting events
MaxExisting == 3

(***************************************************************************)
(* Characters and strings (String.prototype and RegExp primitives).        *)
(***************************************************************************)
At(s, i) == SubSeq(s, i, i)

DigitChars == <<"0", "1", "2", "3", "4", "5", "6", "7", "8", "9">>

UpperChars == <<"A", "B", "C", "D", "E", "F", "G", "H", "I", "J", "K", "L", "M",
                "N", "O", "P", "Q", "R", "S", "T", "U", "V", "W", "X", "Y", "Z">>

LowerChars == <<"a", "b", "c", "d", "e", "f", "g", "h", "i", "j", "k", "l", "m",
                "n", "o", "p", "q", "r", "s", "t", "u", "v", "w", "x", "y", "z">>

\* \d
IsDigit(c) == \E i \in 1..10 : DigitChars[i] = c

DigitValue(c) == (CHOOSE i \in 1..10 : DigitChars[i] = c) - 1

\* \s (the blank and the tab stand for the white space class)
IsSpace(c) == c \in {" ", "\t"}

\* \w, the class \b is defined by
IsWordChar(c) ==
    \/ IsDigit(c)
    \/ c = "_"
    \/ \E i \in 1..26 : UpperChars[i] = c \/ LowerChars[i] = c

toLowerCaseChar(c) ==
    IF \E i \in 1..26 : UpperChars[i] = c
    THEN LowerChars[CHOOSE i \in 1..26 : UpperChars[i] = c]
    ELSE c

RECURSIVE toLowerCase(_)
toLowerCase(s) ==
    IF Len(s) = 0 THEN ""
    ELSE toLowerCaseChar(Head(s)) \o toLowerCase(Tail(s))

RECURSIVE trimStart(_)
trimStart(s) ==
    IF Len(s) > 0 /\ IsSpace(Head(s)) THEN trimStart(Tail(s)) ELSE s

RECURSIVE trimEnd(_)
trimEnd(s) ==
    IF Len(s) > 0 /\ IsSpace(At(s, Len(s)))
    THEN trimEnd(SubSeq(s, 1, Len(s) - 1))
    ELSE s

trim(s) == trimEnd(trimStart(s))

\* the text `sub` stands in s at position i
StartsAt(s, i, sub) ==
    /\ i >= 1
    /\ i + Len(sub) - 1 <= Len(s)
    /\ SubSeq(s, i, i + Len(sub) - 1) = sub

includes(s, sub) == \E i \in 1..(Len(s) + 1) : StartsAt(s, i, sub)

\* the first position >= i of s that holds no digit (Len(s) + 1 if none)
RECURSIVE SkipDigits(_, _)
SkipDigits(s, i) ==
    IF i <= Len(s) /\ IsDigit(At(s, i)) THEN SkipDigits(s, i + 1) ELSE i

\* the first position >= i of s that holds no white space
RECURSIVE SkipSpaces(_, _)
SkipSpaces(s, i) ==
    IF i <= Len(s) /\ IsSpace(At(s, i)) THEN SkipSpaces(s, i + 1) ELSE i

\* parseInt of a text of decimal digits
RECURSIVE parseInt(_)
parseInt(s) ==
    IF Len(s) = 0 THEN 0
    ELSE parseInt(SubSeq(s, 1, Len(s) - 1)) * 10 + DigitValue(At(s, Len(s)))

\* String(n) for n >= 0
RECURSIVE NumberToString(_)
NumberToString(n) ==
    IF n < 10 THEN DigitChars[n + 1]
    ELSE NumberToString(n \div 10) \o DigitChars[(n % 10) + 1]

\* String(n).padStart(2, '0')
padStart2(n) ==
    LET s == NumberToString(n) IN IF Len(s) < 2 THEN "0" \o s ELSE s

(***************************************************************************)
(* Date: the local fields of a JavaScript Date, [day, hour, minute], day   *)
(* counting the days since 2024-01-01 (a Monday). Seconds and              *)
(* milliseconds are not kept: setHours(h, m, 0, 0) clears them and no      *)
(* format prints them.                                                     *)
(***************************************************************************)
IsLeapYear(y) == (y % 4 = 0) /\ ((y % 100 # 0) \/ (y % 400 = 0))

DaysInYear(y) == IF IsLeapYear(y) THEN 366 ELSE 365

DaysInMonth(y, m) ==
    IF m = 2 THEN (IF IsLeapYear(y) THEN 29 ELSE 28)
    ELSE IF m \in {4, 6, 9, 11} THEN 30
    ELSE 31

\* year and day of the year (from 0) of the d-th day counted from 1 January of y
RECURSIVE YearOfDay(_, _)
YearOfDay(y, d) ==
    IF d < 0 THEN YearOfDay(y - 1, d + DaysInYear(y - 1))
    ELSE IF d >= DaysInYear(y) THEN YearOfDay(y + 1, d - DaysInYear(y))
    ELSE [year |-> y, dayOfYear |-> d]

RECURSIVE MonthOfDay(_, _, _)
MonthOfDay(y, m, d) ==
    IF d >= DaysInMonth(y, m) THEN MonthOfDay(y, m + 1, d - DaysInMonth(y, m))
    ELSE [month |-> m, date |-> d + 1]

\* getFullYear / getMonth + 1 / getDate of a day number
Civil(day) ==
    LET yd == YearOfDay(2024, day)
        md == MonthOfDay(yd.year, 1, yd.dayOfYear)
    IN [year |-> yd.year, month |-> md.month, date |-> md.date]

RECURSIVE DaysBeforeYear(_)
DaysBeforeYear(y) ==
    IF y = 2024 THEN 0
    ELSE IF y > 2024 THEN DaysBeforeYear(y - 1) + DaysInYear(y - 1)
    ELSE DaysBeforeYear(y + 1) - DaysInYear(y)

RECURSIVE DaysBeforeMonth(_, _)
DaysBeforeMonth(y, m) ==
    IF m = 1 THEN 0 ELSE DaysBeforeMonth(y, m - 1) + DaysInMonth(y, m - 1)

\* the day number of a civil date (MakeDay)
DayNumber(y, m, d) == DaysBeforeYear(y) + DaysBeforeMonth(y, m) + (d - 1)

\* Date.prototype.getDay: 0 is Sunday
getDay(date) == (date.day + 1) % 7

\* Date.prototype.setDate(getDate() + n)
addDays(date, n) == [date EXCEPT !.day = date.day + n]

\* Date.prototype.setHours(hours, minutes, 0, 0): out-of-range values carry over
setHours(date, hours, minutes) ==
    LET total == hours * 60 + minutes
    IN [day    |-> date.day + (total \div 1440),
        hour   |-> (total % 1440) \div 60,
        minute |-> total % 60]

\* `${year}-${month}-${day}` with month and day padded to two digits
FormatDate(date) ==
    LET c == Civil(date.day)
    IN NumberToString(c.year) \o "-" \o padStart2(c.month) \o "-" \o padStart2(c.date)

\* `${year}-${month}-${day}T${hour}:${minute}:00`
FormatDateTime(date) ==
    FormatDate(date) \o "T" \o padStart2(date.hour) \o ":" \o padStart2(date.minute) \o ":00"

(***************************************************************************)
(* The current wall-clock time in a time zone:                             *)
(*   new Date(now.toLocaleString("en-US", { timeZone: timezone }))         *)
(* The time zones are IANA names; their offsets are those in force in      *)
(* January 2024.                                                           *)
(***************************************************************************)
TimeZones == {"UTC", "America/Los_Angeles", "Asia/Tokyo"}

TimeZoneOffset(tz) ==
    CASE tz = "UTC" -> 0
      [] tz = "America/Los_Angeles" -> -8
      [] tz = "Asia/Tokyo" -> 9

\* the en-US rendering "M/D/YYYY, h:mm:ss AM|PM", field by field
toLocaleString(instant, tz) ==
    LET t == instant.day * 24 + instant.hour + TimeZoneOffset(tz)
        c == Civil(t \div 24)
        h == t % 24
    IN [month |-> c.month, date |-> c.date, year |-> c.year,
        hour12 |-> IF h % 12 = 0 THEN 12 ELSE h % 12,
        minute |-> 0,
        meridiem |-> IF h >= 12 THEN "PM" ELSE "AM"]

\* new Date(text) of that rendering, read as local time
DateFromLocaleString(ls) ==
    [day    |-> DayNumber(ls.year, ls.month, ls.date),
     hour   |-> (ls.hour12 % 12) + (IF ls.meridiem = "PM" THEN 12 ELSE 0),
     minute |-> ls.minute]

\* currentInTimezone ignoring the time zone
currentInUtc(instant, tz) == DateFromLocaleString(toLocaleString(instant, "UTC"))

currentInTimezone(instant, tz) == DateFromLocaleString(toLocaleString(instant, tz))

(***************************************************************************)
(* The three regular expressions of the parser. A match is a record with   *)
(* `found` and the captured groups; the match is the leftmost one, each    *)
(* quantifier greedy.                                                      *)
(***************************************************************************)
NoMatch == [found |-> FALSE]

\* (\d+)\s+days? standing at position p
RelativeCoreAt(s, p) ==
    LET e == SkipDigits(s, p)
        f == SkipSpaces(s, e)
    IN IF e > p /\ f > e /\ StartsAt(s, f, "day")
       THEN [found |-> TRUE, days |-> SubSeq(s, p, e - 1)]
       ELSE NoMatch

\* (?:in\s+)?(\d+)\s+days? standing at position p
RelativeAt(s, p) ==
    LET q == SkipSpaces(s, p + 2)
    IN IF StartsAt(s, p, "in") /\ q > p + 2 /\ RelativeCoreAt(s, q).found
       THEN RelativeCoreAt(s, q)
       ELSE RelativeCoreAt(s, p)

\* normalizedInput.match(/(?:in\s+)?(\d+)\s+days?/)
relativeDayMatch(s) ==
    IF \E p \in 1..Len(s) : RelativeAt(s, p).found
    THEN RelativeAt(s, CHOOSE p \in 1..Len(s) :
                          /\ RelativeAt(s, p).found
                          /\ \A q \in 1..(p - 1) : ~RelativeAt(s, q).found)
    ELSE NoMatch

dayNames == <<"sunday", "monday", "tuesday", "wednesday", "thursday", "friday", "saturday">>

\* \b(name)\b standing at position p
DayNameAt(s, p, name) ==
    /\ StartsAt(s, p, name)
    /\ (p = 1 \/ ~IsWordChar(At(s, p - 1)))
    /\ (p + Len(name) > Len(s) \/ ~IsWordChar(At(s, p + Len(name))))

\* normalizedInput.match(new RegExp(`\\b(${dayNames.join('|')})\\b`)), with
\* dayNames.indexOf of the captured name
dayMatch(s) ==
    LET hit(p) == \E i \in 1..7 : DayNameAt(s, p, dayNames[i])
    IN IF \E p \in 1..Len(s) : hit(p)
       THEN LET p == CHOOSE p \in 1..Len(s) : hit(p) /\ \A q \in 1..(p - 1) : ~hit(q)
            IN [found |-> TRUE,
                index |-> (CHOOSE i \in 1..7 : DayNameAt(s, p, dayNames[i])) - 1]
       ELSE NoMatch

\* the alternatives of (am|pm|a\.m\.|p\.m\.), in the order the expression tries them
meridiemMarkers == <<"am", "pm", "a.m.", "p.m.">>

\* input.match(/(\d{1,2})(?::(\d{2}))?\s*(am|pm|a\.m\.|p\.m\.)?/i)
\* an absent group is the empty text
timeMatch(s) ==
    IF \E p \in 1..Len(s) : IsDigit(At(s, p))
    THEN LET p == CHOOSE p \in 1..Len(s) :
                      IsDigit(At(s, p)) /\ \A q \in 1..(p - 1) : ~IsDigit(At(s, q))
             a == IF p + 1 <= Len(s) /\ IsDigit(At(s, p + 1)) THEN p + 2 ELSE p + 1
             hasMinutes == /\ a + 2 <= Len(s)
                           /\ At(s, a) = ":"
                           /\ IsDigit(At(s, a + 1))
                           /\ IsDigit(At(s, a + 2))
             b == IF hasMinutes THEN a + 3 ELSE a
             c == SkipSpaces(s, b)
             marks(i) == StartsAt(toLowerCase(s), c, meridiemMarkers[i])
         IN [found   |-> TRUE,
             hours   |-> SubSeq(s, p, a - 1),
             minutes |-> IF hasMinutes THEN SubSeq(s, a + 1, a + 2) ELSE "",
             ampm    |-> IF \E i \in 1..4 : marks(i)
                         THEN LET i == CHOOSE i \in 1..4 :
                                           marks(i) /\ \A j \in 1..(i - 1) : ~marks(j)
                              IN SubSeq(s, c, c + Len(meridiemMarkers[i]) - 1)
                         ELSE ""]
    ELSE NoMatch

(***************************************************************************)
(* parseTimeForDate, getNextWeekdayDate, parseNaturalDateTime.             *)
(***************************************************************************)
\* convertHours without the 12 am case
convertHoursNoMidnight(hours, ampm) ==
    IF ampm # "" /\ (includes(ampm, "pm") \/ includes(ampm, "p.m."))
    THEN (IF hours # 12 THEN hours + 12 ELSE hours)
    ELSE hours

\* the AM/PM conversion of the captured hour
convertHours(hours, ampm) ==
    IF ampm # "" /\ (includes(ampm, "pm") \/ includes(ampm, "p.m."))
    THEN (IF hours # 12 THEN hours + 12 ELSE hours)
    ELSE IF ampm # "" /\ (includes(ampm, "am") \/ includes(ampm, "a.m.")) /\ hours = 12
    THEN 0
    ELSE hours

parseTimeForDate(inp, date, tz) ==
    LET m == timeMatch(inp)
    IN IF m.found
       THEN LET hours == convertHours(parseInt(m.hours), toLowerCase(m.ampm))
                minutes == IF m.minutes # "" THEN parseInt(m.minutes) ELSE 0
                targetDate == setHours(date, hours, minutes)
            IN [datetime |-> FormatDateTime(targetDate), isAllDay |-> FALSE]
       ELSE [datetime |-> FormatDate(date), isAllDay |-> TRUE]

\* getNextWeekdayDate resolving the current weekday to the current date
getNextWeekdayDateSameDay(currentDate, targetDay) ==
    addDays(currentDate, (targetDay - getDay(currentDate) + 7) % 7)

getNextWeekdayDate(currentDate, targetDay) ==
    LET currentDay == getDay(currentDate)
        daysUntilTarget == (targetDay - currentDay + 7) % 7
    IN IF daysUntilTarget = 0
       THEN addDays(currentDate, 7)
       ELSE addDays(currentDate, daysUntilTarget)

\* normalizeInput without toLowerCase
normalizeInputKeepCase(inp) == trim(inp)

\* input.toLowerCase().trim()
normalizeInput(inp) == trim(toLowerCase(inp))

\* passthrough returning the normalized input in place of the input
passthroughNormalized(inp) ==
    [datetime |-> trim(toLowerCase(inp)), isAllDay |-> ~includes(inp, "T")]

\* passthrough testing the normalized input for the T separator
passthroughAnyT(inp) ==
    [datetime |-> inp, isAllDay |-> ~includes(toLowerCase(inp), "t")]

\* no natural-language pattern found: the input is taken to be ISO already
passthrough(inp) == [datetime |-> inp, isAllDay |-> ~includes(inp, "T")]

\* the anchor patterns in the order the code tries them; "none" when none matches
recognizedPattern(normalizedInput) ==
    IF includes(normalizedInput, "today") THEN "today"
    ELSE IF includes(normalizedInput, "tomorrow") THEN "tomorrow"
    ELSE IF includes(normalizedInput, "yesterday") THEN "yesterday"
    ELSE IF relativeDayMatch(normalizedInput).found THEN "relative"
    ELSE IF dayMatch(normalizedInput).found THEN "weekday"
    ELSE "none"

\* parseNaturalDateTime(input, timezone) when `new Date()` is `instant`
parseNaturalDateTime(inp, tz, instant) ==
    LET normalizedInput == normalizeInput(inp)
        current == currentInTimezone(instant, tz)
        pattern == recognizedPattern(normalizedInput)
    IN CASE pattern = "today" ->
              parseTimeForDate(normalizedInput, current, tz)
         [] pattern = "tomorrow" ->
              parseTimeForDate(normalizedInput, addDays(current, 1), tz)
         [] pattern = "yesterday" ->
              parseTimeForDate(normalizedInput, addDays(current, -1), tz)
         [] pattern = "relative" ->
              parseTimeForDate(normalizedInput,
                               addDays(current, parseInt(relativeDayMatch(normalizedInput).days)),
                               tz)
         [] pattern = "weekday" ->
              parseTimeForDate(normalizedInput,
                               getNextWeekdayDate(current, dayMatch(normalizedInput).index),
                               tz)
         [] OTHER -> passthrough(inp)

(***************************************************************************)
(* The inputs of the normalizer: the phrases of the unit tests and of the  *)
(* tool descriptions, crossed with times of day, letter case and white     *)
(* space; ISO-8601 values and free text.                                   *)
(***************************************************************************)
toUpperCaseChar(c) ==
    IF \E i \in 1..26 : LowerChars[i] = c
    THEN UpperChars[CHOOSE i \in 1..26 : LowerChars[i] = c]
    ELSE c

RECURSIVE toUpperCase(_)
toUpperCase(s) ==
    IF Len(s) = 0 THEN ""
    ELSE toUpperCaseChar(Head(s)) \o toUpperCase(Tail(s))

\* hours, minutes and meridiem markers a caller writes after "today"
HourValues == {0, 8, 12, 13, 23}

MinuteTexts == {"", ":05", ":30", ":75"}

MeridiemTexts == {"", "am", "pm", " pm", "a.m.", "P.M."}

TimeText(h, m, mer) == NumberToString(h) \o m \o mer

TodayTimeInputs ==
    {"today " \o TimeText(h, m, mer) :
        h \in HourValues, m \in MinuteTexts, mer \in MeridiemTexts}

\* the times of day written after the other anchors ("" is no time)
AnchorTimes == {"", " 4pm", " 2:30pm", " 14:30"}

RelativePhrase(n) == "in " \o NumberToString(n) \o " days"

RelativePhrases == {RelativePhrase(n) : n \in 0..MaxRelDays}

DayNamePhrases == {dayNames[i] : i \in 1..7}

AnchorPhrases ==
    {"today", "tomorrow", "yesterday"} \union RelativePhrases \union DayNamePhrases

AnchorInputs == {a \o t : a \in AnchorPhrases, t \in AnchorTimes}

\* the same phrases in capitals, and between blanks: <<variant, phrase>>
VariantPairs ==
    {<<toUpperCase(x), x>> : x \in AnchorInputs}
        \union {<<"  " \o x \o " ", x>> : x \in AnchorInputs}

VariantInputs == {v[1] : v \in VariantPairs}

\* phrases that match more than one anchor pattern
MultiPatternInputs ==
    {"friday today", "today tomorrow", "tomorrow yesterday", "yesterday tomorrow",
     "tomorrow friday", "monday yesterday", "in 2 days yesterday",
     "friday in 2 days", "in 2 days friday"}

\* ISO-8601 values and free text: no anchor pattern matches
PassthroughInputs ==
    {"2024-01-20", "2024-01-20T15:30:00", "2024-01-20T15:30:00Z",
     "2024-01-20T15:30:00+05:30", " 2024-01-20 ", "2024-01-20t15:30:00",
     "next week", "Team Sync", "holidays", "sundays", "noon", ""}

Inputs ==
    TodayTimeInputs \union AnchorInputs \union VariantInputs
        \union MultiPatternInputs \union PassthroughInputs

\* the instants `new Date()` returns: a UTC date from 2024-01-15 on, and an hour
NowDays == 14..(14 + MaxNowSpan)

NowHours == {2, 10, 23}

NoResult == [datetime |-> "", isAllDay |-> FALSE]

\* no call of runTool is in progress
CreateIdle ==
    /\ args = [allowDuplicates |-> "undefined", duplicateSimilarityThreshold |-> <<>>,
               calendarId |-> "primary", calendarsToCheck |-> <<>>, end |-> 11]
    /\ calendar = {}
    /\ createPc = "idle"
    /\ requested = {}
    /\ pending = {}
    /\ succeeded = {}
    /\ arrived = <<>>
    /\ fetchCalls = 0
    /\ detectorThreshold = <<>>
    /\ conflicts = [conflicts |-> <<>>, duplicates |-> <<>>]
    /\ insertCalls = 0
    /\ outcome = [kind |-> "none"]

\* no call of getAuthenticatedClient is in progress
AuthIdle ==
    /\ version = "auth"
    /\ user_id = ""
    /\ provider = ""
    /\ tokenResponse = [success |-> FALSE]
    /\ authPc = "idle"
    /\ storeCalls = 0
    /\ authOutcome = [kind |-> "none"]

\* no request is in progress
ServerIdle ==
    /\ serverKind = "params"
    /\ toolName = "create-google-calendar-event"
    /\ request = [calendarId |-> [t |-> "string", v |-> "primary"]]
    /\ storedTokensValid = FALSE
    /\ srvPc = "idle"
    /\ handlerArgs = [calendarId |-> [t |-> "string", v |-> "primary"]]
    /\ credentials = <<>>
    /\ runToolArgs = <<>>
    /\ runToolCalls = 0
    /\ srvOutcome = [kind |-> "none"]

\* an argument of a request, tagged by its type
Absent == [t |-> "undefined"]

Str(text) == [t |-> "string", v |-> text]

Obj(date, dateTime) == [t |-> "object", date |-> date, dateTime |-> dateTime]

\* no request is being validated
SchemaIdle ==
    /\ schTool = "list-google-calendar-events"
    /\ schArgs = [calendarId |-> Str("primary")]
    /\ schNow = [day |-> 18, hour |-> 10]
    /\ schPc = "idle"
    /\ schNormalized = [calendarId |-> Str("primary")]
    /\ schValidated = <<>>
    /\ schHandlerCalls = 0
    /\ schOutcome = [kind |-> "none"]

(***************************************************************************)
(* The normalizer's specification: one call, then the re-normalization of  *)
(* its result at the same instant.                                         *)
(***************************************************************************)
NormInit ==
    /\ input \in Inputs
    /\ timezone \in TimeZones
    /\ now \in [day : NowDays, hour : NowHours]
    /\ normPc = "call"
    /\ parsed = NoResult
    /\ reparsed = NoResult
    /\ CreateIdle
    /\ AuthIdle
    /\ ServerIdle
    /\ SchemaIdle

\* parseNaturalDateTime(input, timezone)
Normalize ==
    /\ normPc = "call"
    /\ parsed' = parseNaturalDateTime(input, timezone, now)
    /\ normPc' = "parsed"
    /\ UNCHANGED <<input, timezone, now, reparsed>>
    /\ UNCHANGED createVars
    /\ UNCHANGED authVars
    /\ UNCHANGED serverVars
    /\ UNCHANGED schemaVars

\* parseNaturalDateTime(parsed.datetime, timezone)
Renormalize ==
    /\ normPc = "parsed"
    /\ reparsed' = parseNaturalDateTime(parsed.datetime, timezone, now)
    /\ normPc' = "reparsed"
    /\ UNCHANGED <<input, timezone, now, parsed>>
    /\ UNCHANGED createVars
    /\ UNCHANGED authVars
    /\ UNCHANGED serverVars
    /\ UNCHANGED schemaVars

NormNext == Normalize \/ Renormalize

NormSpec == NormInit /\ [][NormNext]_vars

(***************************************************************************)
(* CreateEventHandler.runTool. A similarity is a number of thousandths     *)
(* (0.95 is 950). The conflict detection service is outside the handler:   *)
(* it is modelled from its design (the candidate is validated before any   *)
(* fetch; the calendars are fetched concurrently and a failed fetch is     *)
(* skipped unless every fetch failed; a duplicate is an existing event     *)
(* whose score reaches the threshold; a conflict is an overlap of the      *)
(* half-open intervals; the lists are sorted by descending score, ties by  *)
(* the earlier start).                                                     *)
(***************************************************************************)
\* CONFLICT_DETECTION_CONFIG.DEFAULT_DUPLICATE_THRESHOLD (0.7)
DEFAULT_DUPLICATE_THRESHOLD == 700

\* CONFLICT_DETECTION_CONFIG.DUPLICATE_THRESHOLDS.BLOCKING (0.95)
BLOCKING == 950

\* the event of the call: args.summary, args.start, args.end (hours of one day)
Candidate == [summary |-> "Team Sync", start |-> 10, end |-> 11]

\* eventToCheck: the event of the call with the end the caller gave
eventToCheck(a) == [Candidate EXCEPT !.end = a.end]

\* the events the calendars may hold, in the order their calendar lists
\* them, each with the score the detector gives it against the candidate
EventList ==
    <<[id |-> "evt1", title |-> "Team Sync", start |-> 10, end |-> 11,
       similarity |-> 1000, calendarId |-> "primary"],
      [id |-> "evt2", title |-> "Team Sync (copy)", start |-> 10, end |-> 12,
       similarity |-> 954, calendarId |-> "work"],
      [id |-> "evt3", title |-> "Team Sync up", start |-> 9, end |-> 10,
       similarity |-> 949, calendarId |-> "primary"],
      [id |-> "evt4", title |-> "Team Standup", start |-> 10, end |-> 11,
       similarity |-> 700, calendarId |-> "work"],
      [id |-> "evt5", title |-> "Lunch", start |-> 11, end |-> 12,
       similarity |-> 300, calendarId |-> "primary"],
      [id |-> "evt6", title |-> "Team Standup", start |-> 9, end |-> 11,
       similarity |-> 700, calendarId |-> "primary"]>>

EventPool == {EventList[i] : i \in 1..Len(EventList)}

Calendars == {c \in SUBSET EventPool : Cardinality(c) <= MaxExisting}

\* allowDuplicates: z.boolean().optional()
AllowDuplicatesValues == {"undefined", "true", "false"}

\* duplicateSimilarityThreshold: z.number().min(0).max(1).optional();
\* <<>> is an absent value
ThresholdValues == {<<>>, <<0>>, <<500>>, <<700>>, <<1000>>}

\* calendarsToCheck: z.array(z.string()).optional(); <<>> is an absent value
CalendarsToCheckValues == {<<>>, <<<<"work">>>>, <<<<"primary", "work">>>>}

\* end: the hour the candidate ends; the candidate starts at Candidate.start
EndValues == {Candidate.end, Candidate.start - 1}

\* Math.round(similarity * 100)
RoundPercent(similarity) == (similarity + 5) \div 10

\* the suggestion the detector attaches to a duplicate
Suggestion(e) ==
    "An event with " \o NumberToString(RoundPercent(e.similarity))
        \o "% similar title already exists; use allowDuplicates to override"

\* e comes before f in a list of the report
ScoredBefore(e, f) ==
    \/ e.similarity > f.similarity
    \/ (e.similarity = f.similarity /\ e.start < f.start)

\* the lists of the report left in the order the events arrived
arrivalOrder(events) == events

RECURSIVE insertSorted(_, _)
insertSorted(e, sorted) ==
    IF sorted = <<>> THEN <<e>>
    ELSE IF ScoredBefore(e, Head(sorted)) THEN <<e>> \o sorted
    ELSE <<Head(sorted)>> \o insertSorted(e, Tail(sorted))

\* the sort of a list of the report: descending score, ties by earlier start
RECURSIVE sortMatches(_)
sortMatches(events) ==
    IF events = <<>> THEN <<>>
    ELSE insertSorted(events[Len(events)],
                      sortMatches(SubSeq(events, 1, Len(events) - 1)))

\* the entry of the report for an existing event
MatchOf(e) ==
    [id |-> e.id, title |-> e.title, similarity |-> e.similarity,
     suggestion |-> Suggestion(e)]

\* the conflict test with closed intervals
overlapsClosed(a, b) == a.start <= b.end /\ b.start <= a.end

\* the conflict test: [a.start, a.end) and [b.start, b.end) overlap
overlaps(a, b) == a.start < b.end /\ b.start < a.end

\* a candidate is taken whatever its interval
acceptsAnyCandidate(event) == TRUE

\* the validation of the candidate: its end is not before its start
validCandidate(event) == ~(event.end < event.start)

\* detection is never unavailable: no answer is an empty report
neverUnavailable(asked, ok) == FALSE

\* detection is unavailable as soon as one fetch failed
anyFetchFailed(asked, ok) == ok # asked

\* detection is unavailable when every requested calendar failed
detectionUnavailable(asked, ok) == ok = {}

\* the events a fetch of calendar c returns, in the calendar's order
RECURSIVE listEvents(_, _, _)
listEvents(existing, c, i) ==
    IF i > Len(EventList) THEN <<>>
    ELSE (IF EventList[i] \in existing /\ EventList[i].calendarId = c
          THEN <<EventList[i]>> ELSE <<>>) \o listEvents(existing, c, i + 1)

\* the report of conflictDetectionService.checkConflicts for the events
\* fetched, in the order they arrived
checkConflicts(event, fetched, threshold) ==
    LET isDuplicate(e) == e.similarity >= threshold
        isConflict(e) == overlaps(event, e)
        dups == sortMatches(SelectSeq(fetched, isDuplicate))
        over == sortMatches(SelectSeq(fetched, isConflict))
    IN [conflicts  |-> [i \in 1..Len(over) |-> MatchOf(over[i])],
        duplicates |-> [i \in 1..Len(dups) |-> MatchOf(dups[i])]]

\* validArgs.duplicateSimilarityThreshold || DEFAULT_DUPLICATE_THRESHOLD
thresholdOption(a) ==
    IF a.duplicateSimilarityThreshold = <<>> \/ a.duplicateSimilarityThreshold[1] = 0
    THEN DEFAULT_DUPLICATE_THRESHOLD
    ELSE a.duplicateSimilarityThreshold[1]

\* validArgs.calendarsToCheck || [validArgs.calendarId]
calendarsOption(a) ==
    IF a.calendarsToCheck = <<>> THEN <<a.calendarId>> ELSE a.calendarsToCheck[1]

\* a find that falls back on the first conflict of the report
exactDuplicateOrConflict(report) ==
    LET hit(i) == report.duplicates[i].similarity >= BLOCKING
    IN IF \E i \in 1..Len(report.duplicates) : hit(i)
       THEN <<report.duplicates[CHOOSE i \in 1..Len(report.duplicates) :
                                    hit(i) /\ \A j \in 1..(i - 1) : ~hit(j)]>>
       ELSE IF report.conflicts # <<>> THEN <<report.conflicts[1]>>
       ELSE <<>>

\* conflicts.duplicates.find(dup => dup.event.similarity >= BLOCKING);
\* <<>> is undefined
exactDuplicate(report) ==
    LET hit(i) == report.duplicates[i].similarity >= BLOCKING
    IN IF \E i \in 1..Len(report.duplicates) : hit(i)
       THEN <<report.duplicates[CHOOSE i \in 1..Len(report.duplicates) :
                                    hit(i) /\ \A j \in 1..(i - 1) : ~hit(j)]>>
       ELSE <<>>

\* blocksCreation refusing only when allowDuplicates is false
blocksCreationUnlessAbsent(found, allowDuplicates) ==
    found # <<>> /\ allowDuplicates = "false"

\* blocksCreation refusing whatever allowDuplicates is
blocksCreationWheneverFound(found, allowDuplicates) ==
    found # <<>>

\* exactDuplicate && validArgs.allowDuplicates !== true
blocksCreation(found, allowDuplicates) ==
    found # <<>> /\ allowDuplicates # "true"

\* the message of the Error thrown for a blocking duplicate
duplicateMessage(dup) ==
    "Duplicate event detected (" \o NumberToString(RoundPercent(dup.similarity))
        \o "% similar). " \o "Event \"" \o dup.title \o "\" already exists. "
        \o "To create anyway, set allowDuplicates to true."

\* the structured form of an entry of the report
StructuredMatch(m) ==
    [event |-> [id |-> m.id, title |-> m.title, similarity |-> m.similarity],
     suggestion |-> m.suggestion]

\* convertConflictsToStructured(conflicts): both lists, entry by entry
convertConflictsToStructured(report) ==
    [conflicts  |-> [i \in 1..Len(report.conflicts) |->
                        StructuredMatch(report.conflicts[i])],
     duplicates |-> [i \in 1..Len(report.duplicates) |->
                        StructuredMatch(report.duplicates[i])]]

\* no call of parseNaturalDateTime is in progress
NormIdle ==
    /\ input = ""
    /\ timezone = "UTC"
    /\ now = [day |-> 14, hour |-> 10]
    /\ normPc = "idle"
    /\ parsed = NoResult
    /\ reparsed = NoResult

CreateInit ==
    /\ args \in [allowDuplicates : AllowDuplicatesValues,
                 duplicateSimilarityThreshold : ThresholdValues,
                 calendarId : {"primary"},
                 calendarsToCheck : CalendarsToCheckValues,
                 end : EndValues]
    /\ calendar \in Calendars
    /\ createPc = "start"
    /\ requested = {}
    /\ pending = {}
    /\ succeeded = {}
    /\ arrived = <<>>
    /\ fetchCalls = 0
    /\ detectorThreshold = <<>>
    /\ conflicts = [conflicts |-> <<>>, duplicates |-> <<>>]
    /\ insertCalls = 0
    /\ outcome = [kind |-> "none"]
    /\ NormIdle
    /\ AuthIdle
    /\ ServerIdle
    /\ SchemaIdle

\* await checkConflicts(...), up to the fan-out: the candidate is validated,
\* then one fetch per calendar to check is issued. The timezone of line 26
\* (args.timeZone || getCalendarTimezone) reads calendar metadata, no event.
RunToolDetect ==
    /\ createPc = "start"
    /\ detectorThreshold' = <<thresholdOption(args)>>
    /\ IF validCandidate(eventToCheck(args))
       THEN /\ requested' = {calendarsOption(args)[i] :
                                i \in 1..Len(calendarsOption(args))}
            /\ pending' = requested'
            /\ fetchCalls' = fetchCalls + Cardinality(requested')
            /\ createPc' = "fetching"
            /\ UNCHANGED outcome
       ELSE /\ createPc' = "failed"
            /\ outcome' = [kind |-> "error", from |-> "checkConflicts",
                           message |-> "ValidationError"]
            /\ UNCHANGED <<requested, pending, fetchCalls>>
    /\ UNCHANGED <<args, calendar, succeeded, arrived, conflicts, insertCalls>>
    /\ UNCHANGED normVars
    /\ UNCHANGED authVars
    /\ UNCHANGED serverVars
    /\ UNCHANGED schemaVars

\* the fetch of one calendar returns its events, or fails and is skipped
FetchReturns ==
    /\ createPc = "fetching"
    /\ \E c \in pending :
        /\ pending' = pending \ {c}
        /\ \/ /\ arrived' = arrived \o listEvents(calendar, c, 1)
              /\ succeeded' = succeeded \cup {c}
           \/ UNCHANGED <<arrived, succeeded>>
    /\ UNCHANGED <<args, calendar, createPc, requested, fetchCalls,
                   detectorThreshold, conflicts, insertCalls, outcome>>
    /\ UNCHANGED normVars
    /\ UNCHANGED authVars
    /\ UNCHANGED serverVars
    /\ UNCHANGED schemaVars

\* the join of the fetches: the report of the events fetched, or the
\* service's error when no calendar could be read
DetectJoin ==
    /\ createPc = "fetching"
    /\ pending = {}
    /\ IF detectionUnavailable(requested, succeeded)
       THEN /\ createPc' = "failed"
            /\ outcome' = [kind |-> "error", from |-> "checkConflicts",
                           message |-> "DetectionUnavailable"]
            /\ UNCHANGED conflicts
       ELSE /\ conflicts' = checkConflicts(eventToCheck(args), arrived,
                                           detectorThreshold[1])
            /\ createPc' = "detected"
            /\ UNCHANGED outcome
    /\ UNCHANGED <<args, calendar, requested, pending, succeeded, arrived,
                   fetchCalls, detectorThreshold, insertCalls>>
    /\ UNCHANGED normVars
    /\ UNCHANGED authVars
    /\ UNCHANGED serverVars
    /\ UNCHANGED schemaVars

\* the blocking decision: throw, or go on to createEvent
RunToolDecide ==
    /\ createPc = "detected"
    /\ LET found == exactDuplicate(conflicts)
       IN IF blocksCreation(found, args.allowDuplicates)
          THEN /\ createPc' = "failed"
               /\ outcome' = [kind |-> "error", from |-> "runTool",
                              message |-> duplicateMessage(found[1])]
          ELSE /\ createPc' = "creating"
               /\ UNCHANGED outcome
    /\ UNCHANGED <<args, calendar, requested, pending, succeeded, arrived,
                   fetchCalls, detectorThreshold, conflicts, insertCalls>>
    /\ UNCHANGED normVars
    /\ UNCHANGED authVars
    /\ UNCHANGED serverVars
    /\ UNCHANGED schemaVars

\* createEvent up to the insert: validateEventId, getCalendarTimezone and
\* getTokenInfo return, or one of them throws
CreateEventPrepare ==
    /\ createPc = "creating"
    /\ \/ /\ createPc' = "inserting"
          /\ UNCHANGED outcome
       \/ /\ createPc' = "failed"
          /\ outcome' = [kind |-> "error", from |-> "createEvent",
                         message |-> "Google API error"]
    /\ UNCHANGED <<args, calendar, requested, pending, succeeded, arrived,
                   fetchCalls, detectorThreshold, conflicts, insertCalls>>
    /\ UNCHANGED normVars
    /\ UNCHANGED authVars
    /\ UNCHANGED serverVars
    /\ UNCHANGED schemaVars

\* await calendar.events.insert(...): the created event and the structured
\* response; or an error (409, another API error, no data)
CreateEventInsert ==
    /\ createPc = "inserting"
    /\ insertCalls' = insertCalls + 1
    /\ \/ /\ createPc' = "done"
          /\ outcome' = [kind |-> "response",
                         event |-> eventToCheck(args),
                         conflicts |-> convertConflictsToStructured(conflicts).conflicts,
                         duplicates |-> convertConflictsToStructured(conflicts).duplicates]
       \/ /\ createPc' = "failed"
          /\ outcome' = [kind |-> "error", from |-> "createEvent",
                         message |-> "Google API error"]
    /\ UNCHANGED <<args, calendar, requested, pending, succeeded, arrived,
                   fetchCalls, detectorThreshold, conflicts>>
    /\ UNCHANGED normVars
    /\ UNCHANGED authVars
    /\ UNCHANGED serverVars
    /\ UNCHANGED schemaVars

CreateNext ==
    \/ RunToolDetect
    \/ FetchReturns
    \/ DetectJoin
    \/ RunToolDecide
    \/ CreateEventPrepare
    \/ CreateEventInsert

CreateSpec == CreateInit /\ [][CreateNext]_vars

(***************************************************************************)
(* getAuthenticatedClient, in its two versions: auth/tokenFetcher (it      *)
(* initializes the client with initializeOAuth2Client) and                 *)
(* utils/tokenFetcher (it builds a bare OAuth2Client inside a try/catch).  *)
(* An optional value is <<>> when absent and <<v>> when present.           *)
(***************************************************************************)
Versions == {"auth", "utils"}

UserIds == {"", "user123"}

Providers == {"", "google", "microsoft"}

\* the entries a token store may hold for a provider
TokenEntries ==
    {[access_token |-> <<"ya29.test_access_token">>, refresh_token |-> <<"1//test_refresh_token">>,
      token_type |-> <<"Bearer">>, expires_at |-> <<1763010>>],
     [access_token |-> <<"ya29.test_access_token">>, refresh_token |-> <<>>,
      token_type |-> <<>>, expires_at |-> <<>>],
     [access_token |-> <<>>, refresh_token |-> <<"1//test_refresh_token">>,
      token_type |-> <<"Bearer">>, expires_at |-> <<1763010>>],
     [access_token |-> <<"">>, refresh_token |-> <<"1//test_refresh_token">>,
      token_type |-> <<"Bearer">>, expires_at |-> <<1763010>>]}

\* the successes getOAuthTokens may report: { success: true, tokens }
SuccessResponses ==
    {[success |-> TRUE, tokens |-> t, requires_auth |-> "undefined",
      message |-> <<>>, error |-> <<>>] :
        t \in [google : {<<>>} \cup {<<e>> : e \in TokenEntries},
               microsoft : {<<>>, <<[access_token |-> <<"ms_test_access_token">>,
                                     refresh_token |-> <<"ms_test_refresh_token">>,
                                     token_type |-> <<"Bearer">>,
                                     expires_at |-> <<1763010>>]>>}]}

\* the failures getOAuthTokens may report:
\* { success: false, error, requires_auth?, message? }
FailureResponses ==
    {[success |-> FALSE, tokens |-> [google |-> <<>>, microsoft |-> <<>>],
      requires_auth |-> r, message |-> m, error |-> <<e>>] :
        r \in {"undefined", "true", "false"},
        m \in {<<>>, <<"Please connect your Google account to continue">>},
        e \in {"User not authenticated", "Internal error occurred", ""}}

StoreResponses == SuccessResponses \cup FailureResponses

\* a || b for optional strings: a when it is present and not empty
orElse(a, b) == IF a # <<>> /\ a[1] # "" THEN a[1] ELSE b

\* the parameter check that looks at the user id only
missingUserId(userId, prov) == userId = ""

\* !userId || !provider
missingParameters(userId, prov) == userId = "" \/ prov = ""

\* tokens = response.tokens[provider]
tokensFor(response, prov) ==
    IF prov = "google" THEN response.tokens.google ELSE response.tokens.microsoft

\* a token check that looks at the entry only
hasEntry(tokens) == tokens # <<>>

\* !(!tokens || !tokens.access_token)
hasAccessToken(tokens) ==
    /\ tokens # <<>>
    /\ tokens[1].access_token # <<>>
    /\ tokens[1].access_token[1] # ""

\* the message thrown when the store asks for authentication
requiresAuthMessage(ver, response, prov) ==
    IF ver = "auth"
    THEN orElse(response.message, orElse(response.error, "Authentication required"))
    ELSE orElse(response.message,
                "Authentication required: Please connect your " \o prov \o " account.")

\* the message thrown for another failure of the store
failureMessage(response) == orElse(response.error, "Failed to retrieve OAuth tokens")

\* the message thrown when the provider has no access token
missingTokenMessage(prov) == "[AUTH_ERROR] No access token found for provider " \o prov

\* the credentials set on the client
credentialsOf(ver, tokens) ==
    [access_token |-> tokens[1].access_token,
     refresh_token |-> tokens[1].refresh_token,
     expiry_date |-> IF tokens[1].expires_at # <<>> /\ tokens[1].expires_at[1] # 0
                     THEN <<tokens[1].expires_at[1] * 1000>> ELSE <<>>,
     token_type |-> IF ver = "auth"
                    THEN <<orElse(tokens[1].token_type, "Bearer")>>
                    ELSE tokens[1].token_type]

McpError(code, message) == [kind |-> "McpError", code |-> code, message |-> message]

AuthInit ==
    /\ version \in Versions
    /\ user_id \in UserIds
    /\ provider \in Providers
    /\ tokenResponse \in StoreResponses
    /\ authPc = "start"
    /\ storeCalls = 0
    /\ authOutcome = [kind |-> "none"]
    /\ NormIdle
    /\ CreateIdle
    /\ ServerIdle
    /\ SchemaIdle

\* getAuthenticatedClient up to await getOAuthTokens(user_id, provider)
GetAuthenticatedClient ==
    /\ authPc = "start"
    /\ IF missingParameters(user_id, provider)
       THEN /\ authPc' = "rejected"
            /\ authOutcome' = McpError(IF version = "auth" THEN "InvalidRequest"
                                       ELSE "InvalidParams",
                    "[AUTH_ERROR] user_id and provider are required parameters")
            /\ UNCHANGED storeCalls
       ELSE /\ authPc' = "fetching"
            /\ storeCalls' = storeCalls + 1
            /\ UNCHANGED authOutcome
    /\ UNCHANGED <<version, user_id, provider, tokenResponse>>
    /\ UNCHANGED normVars
    /\ UNCHANGED createVars
    /\ UNCHANGED serverVars
    /\ UNCHANGED schemaVars

\* getOAuthTokens resolves: the checks of the response, then the client
\* (utils/tokenFetcher) or the call of initializeOAuth2Client (auth/tokenFetcher)
GetOAuthTokensResolves ==
    /\ authPc = "fetching"
    /\ LET tokens == tokensFor(tokenResponse, provider)
       IN IF ~tokenResponse.success
          THEN /\ authPc' = "rejected"
               /\ authOutcome' =
                    IF tokenResponse.requires_auth = "true"
                    THEN McpError("InvalidRequest",
                                  requiresAuthMessage(version, tokenResponse, provider))
                    ELSE McpError("InternalError", failureMessage(tokenResponse))
          ELSE IF ~hasAccessToken(tokens)
          THEN /\ authPc' = "rejected"
               /\ authOutcome' = McpError(IF version = "auth" THEN "InternalError"
                                          ELSE "InvalidRequest",
                                          missingTokenMessage(provider))
          ELSE IF version = "auth"
          THEN /\ authPc' = "initializing"
               /\ UNCHANGED authOutcome
          ELSE /\ authPc' = "returned"
               /\ authOutcome' = [kind |-> "client",
                                  credentials |-> credentialsOf(version, tokens)]
    /\ UNCHANGED <<version, user_id, provider, tokenResponse, storeCalls>>
    /\ UNCHANGED normVars
    /\ UNCHANGED createVars
    /\ UNCHANGED serverVars
    /\ UNCHANGED schemaVars

\* auth/tokenFetcher: initializeOAuth2Client resolves and the credentials
\* are set, or it rejects and the rejection passes to the caller
InitializeOAuth2ClientSettles ==
    /\ authPc = "initializing"
    /\ \/ /\ authPc' = "returned"
          /\ authOutcome' = [kind |-> "client",
                             credentials |->
                                credentialsOf(version, tokensFor(tokenResponse, provider))]
       \/ /\ authPc' = "rejected"
          /\ authOutcome' = [kind |-> "Error", code |-> "none",
                             message |-> "OAuth2 client initialization failed"]
    /\ UNCHANGED <<version, user_id, provider, tokenResponse, storeCalls>>
    /\ UNCHANGED normVars
    /\ UNCHANGED createVars
    /\ UNCHANGED serverVars
    /\ UNCHANGED schemaVars

AuthNext ==
    \/ GetAuthenticatedClient
    \/ GetOAuthTokensResolves
    \/ InitializeOAuth2ClientSettles

AuthSpec == AuthInit /\ [][AuthNext]_vars

(***************************************************************************)
(* JSON.parse, for the texts the servers parse: objects, arrays, strings   *)
(* without escapes, unsigned integers, true, false and null, with blanks   *)
(* between tokens. A value is a record tagged by `t`; a parse is           *)
(* [ok, val, pos], pos the position after the value; a text that is not    *)
(* JSON gives ok = FALSE (JSON.parse throws SyntaxError).                  *)
(***************************************************************************)
ParseFailure == [ok |-> FALSE, val |-> [t |-> "undefined"], pos |-> 0]

Parsed(val, pos) == [ok |-> TRUE, val |-> val, pos |-> pos]

\* the position of the first double quote of s at or after p (0 if none)
RECURSIVE QuoteFrom(_, _)
QuoteFrom(s, p) ==
    IF p > Len(s) THEN 0
    ELSE IF At(s, p) = "\"" THEN p
    ELSE QuoteFrom(s, p + 1)

\* a string literal standing at p
parseJsonString(s, p) ==
    IF p <= Len(s) /\ At(s, p) = "\"" /\ QuoteFrom(s, p + 1) # 0
    THEN LET q == QuoteFrom(s, p + 1)
         IN Parsed([t |-> "string", v |-> SubSeq(s, p + 1, q - 1)], q + 1)
    ELSE ParseFailure

\* one step of the parser. what = "value": the value standing at p, blanks
\* before it skipped; what = "members": the members of an object after its
\* "{" or after a ",", read the set of <<key, value>> pairs read so far;
\* what = "elements": the elements of an array after its "[" or after a ",",
\* read the sequence of the elements read so far
RECURSIVE parseJson(_, _, _, _)
parseJson(s, p, what, read) ==
    IF what = "members"
    THEN LET k == parseJsonString(s, SkipSpaces(s, p))
         IN IF ~k.ok THEN ParseFailure
            ELSE LET c == SkipSpaces(s, k.pos)
                 IN IF ~(c <= Len(s) /\ At(s, c) = ":") THEN ParseFailure
                    ELSE LET v == parseJson(s, c + 1, "value", <<>>)
                         IN IF ~v.ok THEN ParseFailure
                            ELSE LET e == SkipSpaces(s, v.pos)
                                     all == {m \in read : m[1] # k.val.v}
                                                \cup {<<k.val.v, v.val>>}
                                 IN IF e <= Len(s) /\ At(s, e) = ","
                                    THEN parseJson(s, e + 1, "members", all)
                                    ELSE IF e <= Len(s) /\ At(s, e) = "}"
                                    THEN Parsed([t |-> "object", v |-> all], e + 1)
                                    ELSE ParseFailure
    ELSE IF what = "elements"
    THEN LET v == parseJson(s, p, "value", <<>>)
         IN IF ~v.ok THEN ParseFailure
            ELSE LET e == SkipSpaces(s, v.pos)
                     all == Append(read, v.val)
                 IN IF e <= Len(s) /\ At(s, e) = ","
                    THEN parseJson(s, e + 1, "elements", all)
                    ELSE IF e <= Len(s) /\ At(s, e) = "]"
                    THEN Parsed([t |-> "array", v |-> all], e + 1)
                    ELSE ParseFailure
    ELSE LET b == SkipSpaces(s, p)
         IN IF b > Len(s) THEN ParseFailure
            ELSE IF At(s, b) = "{"
            THEN (IF SkipSpaces(s, b + 1) <= Len(s) /\ At(s, SkipSpaces(s, b + 1)) = "}"
                  THEN Parsed([t |-> "object", v |-> {}], SkipSpaces(s, b + 1) + 1)
                  ELSE parseJson(s, b + 1, "members", {}))
            ELSE IF At(s, b) = "["
            THEN (IF SkipSpaces(s, b + 1) <= Len(s) /\ At(s, SkipSpaces(s, b + 1)) = "]"
                  THEN Parsed([t |-> "array", v |-> <<>>], SkipSpaces(s, b + 1) + 1)
                  ELSE parseJson(s, b + 1, "elements", <<>>))
            ELSE IF At(s, b) = "\"" THEN parseJsonString(s, b)
            ELSE IF IsDigit(At(s, b))
            THEN Parsed([t |-> "number", v |-> SubSeq(s, b, SkipDigits(s, b) - 1)],
                        SkipDigits(s, b))
            ELSE IF StartsAt(s, b, "true")
            THEN Parsed([t |-> "boolean", v |-> TRUE], b + 4)
            ELSE IF StartsAt(s, b, "false")
            THEN Parsed([t |-> "boolean", v |-> FALSE], b + 5)
            ELSE IF StartsAt(s, b, "null") THEN Parsed([t |-> "null"], b + 4)
            ELSE ParseFailure

\* JSON.parse(text): the whole text is one value
JSONparse(text) ==
    LET r == parseJson(text, 1, "value", <<>>)
    IN IF r.ok /\ SkipSpaces(text, r.pos) > Len(text) THEN r ELSE ParseFailure

\* obj[key] of a parsed value: [t |-> "undefined"] when obj is no object or
\* has no such member
Member(obj, key) ==
    IF obj.t = "object" /\ \E m \in obj.v : m[1] = key
    THEN (CHOOSE m \in obj.v : m[1] = key)[2]
    ELSE [t |-> "undefined"]

\* the truthiness of a parsed value
Truthy(val) ==
    CASE val.t \in {"undefined", "null"} -> FALSE
      [] val.t = "boolean" -> val.v
      [] val.t = "string" -> val.v # ""
      [] val.t = "number" -> parseInt(val.v) # 0
      [] OTHER -> TRUE

(***************************************************************************)
(* One tool request through a server. Three servers are in the source:     *)
(*   "fastmcp": FastMCP, execute callback of registerTools (server.ts)     *)
(*   "stored":  McpServer with stored tokens, executeWithHandler           *)
(*              (server.ts, second class)                                  *)
(*   "params":  McpServer with token parameters, executeWithHandler        *)
(*              (utils/tokenFetcher.ts, second part)                       *)
(* The McpServer servers are entered through ToolRegistry.registerAll, or  *)
(* at executeWithHandler itself with the arguments as given. An argument   *)
(* is <<>> when absent and <<v>> when present; a calendarId is a value     *)
(* tagged "string" or "array".                                             *)
(***************************************************************************)
ServerKinds == {"fastmcp", "stored", "params"}

\* the tools of the request: the first has a handlerFunction
ToolNames == {"list-google-calendar-events", "create-google-calendar-event"}

\* JSON.stringify of the token response of the store
TokenResponseText ==
    "{\"success\":true,\"provider\":\"google\",\"tokens\":{\"google\":{"
        \o "\"access_token\":\"ya29.test_access_token\","
        \o "\"refresh_token\":\"1//test_refresh_token\","
        \o "\"token_type\":\"Bearer\",\"expires_at\":1763010691}},"
        \o "\"message\":\"Retrieved google OAuth tokens successfully\"}"

\* a response of the store for a user who is not connected
FailureResponseText ==
    "{\"success\":false,\"error\":\"User not authenticated\",\"requires_auth\":true}"

\* a response of the store whose google entry holds an access token only
AccessOnlyResponseText ==
    "{\"success\":true,\"tokens\":{\"google\":{\"access_token\":\"ya29.test_access_token\"}}}"

MalformedText == "{invalid json}"

AccessTokenValues ==
    {<<>>, <<"ya29.simple_access_token">>, <<TokenResponseText>>,
     <<FailureResponseText>>, <<AccessOnlyResponseText>>, <<MalformedText>>}

RefreshTokenValues ==
    {<<>>, <<"1//simple_refresh_token">>, <<TokenResponseText>>,
     <<AccessOnlyResponseText>>, <<MalformedText>>}

ExpiryDateValues == {<<>>, <<"1763010691">>, <<TokenResponseText>>, <<MalformedText>>}

\* the calendarId values of a request
CalendarIdValues ==
    {[t |-> "string", v |-> "primary"],
     [t |-> "string", v |-> "[\"primary\", \"work\"]"],
     [t |-> "string", v |-> " ['primary','work'] "],
     [t |-> "string", v |-> "[\"work\",\"work\"]"],
     [t |-> "string", v |-> "[\"work\",\"\"]"],
     [t |-> "string", v |-> "[]"],
     [t |-> "string", v |-> "[primary]"],
     [t |-> "array", v |-> <<"primary", "work">>]}

\* the keys of the tools' schemas that the requests of the model use
SchemaKeys == {"user_id", "provider", "calendarId", "timeZone"}

\* the request arguments without the keys named: const { a, b, ...rest } = args
without(a, keys) == [k \in (DOMAIN a) \ keys |-> a[k]]

\* z.object(...).parse keeps the keys of the schema and drops the others
stripUnknownKeys(a) == [k \in (DOMAIN a) \cap SchemaKeys |-> a[k]]

\* args[key]: <<>> when the arguments have no such key
get(a, key) == IF key \in DOMAIN a THEN a[key] ELSE <<>>

\* str.replace(/\[\s*'/g, '["')
RECURSIVE replaceOpeningQuotes(_, _)
replaceOpeningQuotes(s, i) ==
    IF i > Len(s) THEN ""
    ELSE IF At(s, i) = "[" /\ StartsAt(s, SkipSpaces(s, i + 1), "'")
    THEN "[\"" \o replaceOpeningQuotes(s, SkipSpaces(s, i + 1) + 1)
    ELSE At(s, i) \o replaceOpeningQuotes(s, i + 1)

\* str.replace(/'\s*,\s*'/g, '", "')
RECURSIVE replaceSeparatingQuotes(_, _)
replaceSeparatingQuotes(s, i) ==
    IF i > Len(s) THEN ""
    ELSE LET c == SkipSpaces(s, i + 1)
             q == SkipSpaces(s, c + 1)
         IN IF At(s, i) = "'" /\ StartsAt(s, c, ",") /\ StartsAt(s, q, "'")
            THEN "\", \"" \o replaceSeparatingQuotes(s, q + 1)
            ELSE At(s, i) \o replaceSeparatingQuotes(s, i + 1)

\* str.replace(/'\s*\]/g, '"]')
RECURSIVE replaceClosingQuotes(_, _)
replaceClosingQuotes(s, i) ==
    IF i > Len(s) THEN ""
    ELSE IF At(s, i) = "'" /\ StartsAt(s, SkipSpaces(s, i + 1), "]")
    THEN "\"]" \o replaceClosingQuotes(s, SkipSpaces(s, i + 1) + 1)
    ELSE At(s, i) \o replaceClosingQuotes(s, i + 1)

\* the single-quoted list written as JSON
normalizeQuotes(s) ==
    IF includes(s, "'")
    THEN replaceClosingQuotes(
             replaceSeparatingQuotes(replaceOpeningQuotes(s, 1), 1), 1)
    ELSE s

\* the most calendars one request may name
MaxCalendarIds == 50

\* the checks of the parsed calendarId: an array of 1 to 50 different
\* non-empty strings
validCalendarIdList(r) ==
    /\ r.ok
    /\ r.val.t = "array"
    /\ \A i \in 1..Len(r.val.v) : r.val.v[i].t = "string" /\ r.val.v[i].v # ""
    /\ Len(r.val.v) > 0
    /\ Len(r.val.v) <= MaxCalendarIds
    /\ \A i, j \in 1..Len(r.val.v) : i # j => r.val.v[i].v # r.val.v[j].v

\* the calendarId is a string that reads as a list: [ ... ]
looksLikeList(calendarId) ==
    /\ calendarId.t = "string"
    /\ StartsAt(trim(calendarId.v), 1, "[")
    /\ StartsAt(trim(calendarId.v), Len(trim(calendarId.v)), "]")

\* the handlerFunction of list-google-calendar-events, on the calendarId:
\* [ok, calendarId], ok = FALSE when it throws 'Invalid JSON format ...'
processCalendarId(calendarId) ==
    IF looksLikeList(calendarId)
    THEN LET r == JSONparse(normalizeQuotes(trim(calendarId.v)))
         IN IF validCalendarIdList(r)
            THEN [ok |-> TRUE,
                  calendarId |-> [t |-> "array",
                                  v |-> [i \in 1..Len(r.val.v) |-> r.val.v[i].v]]]
            ELSE [ok |-> FALSE, calendarId |-> calendarId]
    ELSE [ok |-> TRUE, calendarId |-> calendarId]

\* tool.handlerFunction ? await tool.handlerFunction(args) : args
handlerFunction(tool, a) ==
    IF tool = "list-google-calendar-events"
    THEN LET p == processCalendarId(a.calendarId)
         IN [ok |-> p.ok, args |-> [a EXCEPT !.calendarId = p.calendarId]]
    ELSE [ok |-> TRUE, args |-> a]

\* const { user_id, provider, ...toolArgs } = normalizedArgs;
\* handler.runTool(toolArgs, authClient)
fastmcpToolArgs(normalizedArgs, processedArgs) ==
    without(normalizedArgs, {"user_id", "provider"})

\* a member of parsed.tokens.google as a token value: <<>> when it is missing
googleField(member) ==
    IF member.t \in {"string", "number"} THEN <<member.v>> ELSE <<>>

\* if (parsed.success && parsed.tokens && parsed.tokens.google)
isTokenResponse(val) ==
    /\ Truthy(Member(val, "success"))
    /\ Truthy(Member(val, "tokens"))
    /\ Truthy(Member(Member(val, "tokens"), "google"))

\* a token parameter dropped when it is not JSON
tokenValueDroppingMalformed(raw, field, r) ==
    IF ~r.ok THEN [thrown |-> TRUE, value |-> <<>>]
    ELSE IF isTokenResponse(r.val)
    THEN [thrown |-> FALSE,
          value |-> googleField(
                        Member(Member(Member(r.val, "tokens"), "google"), field))]
    ELSE [thrown |-> FALSE, value |-> raw]

\* one token parameter whose text starts with "{", r what JSON.parse made of
\* it: thrown when JSON.parse throws; replaced by the field of the google
\* entry when the text is a successful response with a google entry
tokenValueParsed(raw, field, r) ==
    IF ~r.ok THEN [thrown |-> TRUE, value |-> raw]
    ELSE IF isTokenResponse(r.val)
    THEN [thrown |-> FALSE,
          value |-> googleField(
                        Member(Member(Member(r.val, "tokens"), "google"), field))]
    ELSE [thrown |-> FALSE, value |-> raw]

\* typeof x === 'string' && x.startsWith('{')
looksLikeJson(raw) == raw # <<>> /\ StartsAt(raw[1], 1, "{")

\* one token parameter
tokenValue(raw, field) ==
    IF looksLikeJson(raw)
    THEN tokenValueParsed(raw, field, JSONparse(raw[1]))
    ELSE [thrown |-> FALSE, value |-> raw]

\* a token parameter after an earlier statement of the try block: untouched
\* when the earlier one has thrown
tokenValueAfter(earlier, raw, field) ==
    IF earlier.thrown THEN [thrown |-> TRUE, value |-> raw]
    ELSE tokenValue(raw, field)

tokenValues(access, refresh, expiry) ==
    [access_token |-> access.value, refresh_token |-> refresh.value,
     expiry_date |-> expiry.value, parseFailed |-> expiry.thrown]

tokenValuesAfterRefresh(a, access, refresh) ==
    tokenValues(access, refresh,
                tokenValueAfter(refresh, get(a, "expiry_date"), "expires_at"))

tokenValuesAfterAccess(a, access) ==
    tokenValuesAfterRefresh(a, access,
        tokenValueAfter(access, get(a, "refresh_token"), "refresh_token"))

\* the try block of the three token parameters: the first JSON.parse that
\* throws ends the block, the catch keeps what is assigned so far
parseTokenParameters(a) ==
    tokenValuesAfterAccess(a, tokenValue(get(a, "access_token"), "access_token"))

\* the token parameters the other servers read: as they are given
plainTokenParameters(a) ==
    [access_token |-> get(a, "access_token"), refresh_token |-> get(a, "refresh_token"),
     expiry_date |-> <<>>, parseFailed |-> FALSE]

\* a present, non-empty value
given(opt) == opt # <<>> /\ opt[1] # ""

\* the credentials check that asks for the access token only
missingAccessToken(kind, tokens, stored) == ~given(tokens.access_token)

\* the request has no credentials: the check of each McpServer server
missingCredentials(kind, tokens, stored) ==
    IF kind = "params"
    THEN ~given(tokens.access_token) \/ ~given(tokens.refresh_token)
    ELSE ~(given(tokens.access_token) \/ given(tokens.refresh_token)) /\ ~stored

\* the server awaits initializeOAuth2Client(), which may reject
initializesClient(kind, tokens) ==
    kind = "params" \/ given(tokens.access_token) \/ given(tokens.refresh_token)

AuthRequiredError ==
    McpError("InvalidRequest",
             "[GOOGLE_AUTH_ERROR] Authentication required. Please provide "
                 \o "access_token and refresh_token as parameters.")

\* Number(expiry_date), as text: "NaN" when it is no number
NumberText(s) ==
    IF \A i \in 1..Len(s) : IsDigit(At(s, i)) THEN s ELSE "NaN"

\* authClient.setCredentials({...}) of each McpServer server; "stored" is
\* the client of the stored tokens
credentialsFor(kind, tokens) ==
    IF kind = "params"
    THEN [access_token |-> tokens.access_token,
          refresh_token |-> tokens.refresh_token,
          expiry_date |-> IF given(tokens.expiry_date)
                          THEN <<NumberText(tokens.expiry_date[1])>> ELSE <<>>]
    ELSE IF given(tokens.access_token) \/ given(tokens.refresh_token)
    THEN [access_token |-> tokens.access_token,
          refresh_token |-> tokens.refresh_token,
          expiry_date |-> <<>>]
    ELSE [access_token |-> <<"stored">>, refresh_token |-> <<"stored">>,
          expiry_date |-> <<>>]

\* the requests: through the tool callback of the server ("callback"), or
\* at executeWithHandler itself ("execute")
ServerInit ==
    /\ serverKind \in ServerKinds
    /\ toolName \in ToolNames
    /\ request \in [user_id : {<<"user123">>}, provider : {<<"google">>},
                    calendarId : CalendarIdValues,
                    timeZone : {<<>>},
                    access_token : AccessTokenValues,
                    refresh_token : RefreshTokenValues,
                    expiry_date : ExpiryDateValues]
    /\ storedTokensValid \in BOOLEAN
    /\ (serverKind # "stored" => storedTokensValid = FALSE)
    /\ (serverKind = "fastmcp" =>
            /\ request.access_token = <<>>
            /\ request.refresh_token = <<>>
            /\ request.expiry_date = <<>>)
    /\ srvPc \in {"callback", "execute"}
    /\ (serverKind = "fastmcp" => srvPc = "callback")
    /\ (srvPc = "execute" => request.calendarId = [t |-> "string", v |-> "primary"])
    /\ handlerArgs = request
    /\ credentials = <<>>
    /\ runToolArgs = <<>>
    /\ runToolCalls = 0
    /\ srvOutcome = [kind |-> "none"]
    /\ SchemaIdle
    /\ NormIdle
    /\ CreateIdle
    /\ AuthIdle

\* the callback registerAll registers: schema.parse, the handlerFunction,
\* then executeWithHandler(handler, processedArgs)
RegisterAllCallback ==
    /\ srvPc = "callback"
    /\ serverKind \in {"stored", "params"}
    /\ LET processed == handlerFunction(toolName, stripUnknownKeys(request))
       IN IF processed.ok
          THEN /\ handlerArgs' = processed.args
               /\ srvPc' = "execute"
               /\ UNCHANGED srvOutcome
          ELSE /\ srvPc' = "rejected"
               /\ srvOutcome' = [kind |-> "Error", code |-> "none",
                                 message |-> "Invalid JSON format for calendarId"]
               /\ UNCHANGED handlerArgs
    /\ UNCHANGED <<serverKind, toolName, request, storedTokensValid, credentials,
                   runToolArgs, runToolCalls>>
    /\ UNCHANGED normVars
    /\ UNCHANGED createVars
    /\ UNCHANGED authVars
    /\ UNCHANGED schemaVars

\* the credentials check, initializeOAuth2Client and setCredentials, for the
\* token parameters read
Authenticate(tokens) ==
    IF missingCredentials(serverKind, tokens, storedTokensValid)
    THEN /\ srvPc' = "failed"
         /\ srvOutcome' = AuthRequiredError
         /\ UNCHANGED credentials
    ELSE \/ /\ credentials' = <<credentialsFor(serverKind, tokens)>>
            /\ srvPc' = "authenticated"
            /\ UNCHANGED srvOutcome
         \/ /\ initializesClient(serverKind, tokens)
            /\ srvPc' = "failed"
            /\ srvOutcome' = [kind |-> "Error", code |-> "none",
                              message |-> "OAuth2 client initialization failed"]
            /\ UNCHANGED credentials

\* executeWithHandler up to the credentials: the token parameters, the
\* check, initializeOAuth2Client and setCredentials
ExecuteWithHandler ==
    /\ srvPc = "execute"
    /\ Authenticate(IF serverKind = "params" THEN parseTokenParameters(handlerArgs)
                    ELSE plainTokenParameters(handlerArgs))
    /\ UNCHANGED <<serverKind, toolName, request, storedTokensValid, handlerArgs,
                   runToolArgs, runToolCalls>>
    /\ UNCHANGED normVars
    /\ UNCHANGED createVars
    /\ UNCHANGED authVars
    /\ UNCHANGED schemaVars

\* FastMCP's execute up to the credentials: await getAuthenticatedClient
FastmcpAuthenticate ==
    /\ srvPc = "callback"
    /\ serverKind = "fastmcp"
    /\ \/ /\ credentials' = <<[access_token |-> <<"ya29.test_access_token">>,
                               refresh_token |-> <<"1//test_refresh_token">>,
                               expiry_date |-> <<>>]>>
          /\ srvPc' = "authenticated"
          /\ UNCHANGED srvOutcome
       \/ /\ srvPc' = "failed"
          /\ srvOutcome' = McpError("InvalidRequest", "Authentication required")
          /\ UNCHANGED credentials
    /\ UNCHANGED <<serverKind, toolName, request, storedTokensValid, handlerArgs,
                   runToolArgs, runToolCalls>>
    /\ UNCHANGED normVars
    /\ UNCHANGED createVars
    /\ UNCHANGED authVars
    /\ UNCHANGED schemaVars

\* await handler.runTool(toolArgs, authClient); FastMCP's execute applies
\* the handlerFunction first
RunTool ==
    /\ srvPc = "authenticated"
    /\ IF serverKind = "fastmcp"
       THEN LET processed == handlerFunction(toolName, request)
            IN IF processed.ok
               THEN /\ handlerArgs' = processed.args
                    /\ runToolArgs' = <<fastmcpToolArgs(request, processed.args)>>
                    /\ runToolCalls' = runToolCalls + 1
                    /\ srvPc' = "done"
                    /\ srvOutcome' = [kind |-> "result"]
               ELSE /\ srvPc' = "rejected"
                    /\ srvOutcome' = [kind |-> "Error", code |-> "none",
                                      message |-> "Invalid JSON format for calendarId"]
                    /\ UNCHANGED <<handlerArgs, runToolArgs, runToolCalls>>
       ELSE /\ runToolArgs' =
                 <<without(handlerArgs,
                           IF serverKind = "params"
                           THEN {"access_token", "refresh_token", "expiry_date"}
                           ELSE {"access_token", "refresh_token"})>>
            /\ runToolCalls' = runToolCalls + 1
            /\ srvPc' = "done"
            /\ srvOutcome' = [kind |-> "result"]
            /\ UNCHANGED handlerArgs
    /\ UNCHANGED <<serverKind, toolName, request, storedTokensValid, credentials>>
    /\ UNCHANGED normVars
    /\ UNCHANGED createVars
    /\ UNCHANGED authVars
    /\ UNCHANGED schemaVars

ServerNext ==
    \/ RegisterAllCallback
    \/ ExecuteWithHandler
    \/ FastmcpAuthenticate
    \/ RunTool

ServerSpec == ServerInit /\ [][ServerNext]_vars

(***************************************************************************)
(* One tool request through the callback registerAll registers, up to the  *)
(* call of executeWithHandler: normalizeDateTimeFields, tool.schema.parse, *)
(* then the handler. An argument is a value tagged by `t`: "undefined"     *)
(* (absent), "string" with text v, or "object" with optional members date  *)
(* and dateTime (<<>> absent, <<text>> present).                           *)
(***************************************************************************)
\* the tools whose schema has date-time fields
DateTimeTools ==
    {"list-google-calendar-events", "search-google-calendar-events",
     "get-google-calendar-freebusy", "create-google-calendar-event",
     "update-google-calendar-event"}

\* const toolsWithDateTime = [...]
toolsWithDateTime ==
    {"create-google-calendar-event", "update-google-calendar-event",
     "search-google-calendar-events", "get-google-calendar-freebusy"}

\* const dateTimeFields = [...], those the requests of the model carry
dateTimeFields == {"start", "originalStartTime", "futureStartDate", "timeMin"}

\* one date-time field: an object becomes its date, else its dateTime, else
\* stays as it is
normalizeField(value) ==
    IF value.t = "object"
    THEN IF given(value.date) THEN Str(value.date[1])
         ELSE IF given(value.dateTime) THEN Str(value.dateTime[1])
         ELSE value
    ELSE value

\* ToolRegistry.normalizeDateTimeFields(toolName, args)
normalizeDateTimeFields(tool, a) ==
    IF tool \notin toolsWithDateTime THEN a
    ELSE [k \in DOMAIN a |-> IF k \in dateTimeFields THEN normalizeField(a[k]) ELSE a[k]]

\* \d{n} at position p of s
digitsAt(s, p, n) ==
    /\ p + n - 1 <= Len(s)
    /\ \A i \in p..(p + n - 1) : IsDigit(At(s, i))

\* \d{4}-\d{2}-\d{2} at the start of s
dateAtStart(s) ==
    /\ Len(s) >= 10
    /\ digitsAt(s, 1, 4) /\ At(s, 5) = "-"
    /\ digitsAt(s, 6, 2) /\ At(s, 8) = "-"
    /\ digitsAt(s, 9, 2)

\* T\d{2}:\d{2}:\d{2} after the date
timeAfterDate(s) ==
    /\ Len(s) >= 19
    /\ At(s, 11) = "T"
    /\ digitsAt(s, 12, 2) /\ At(s, 14) = ":"
    /\ digitsAt(s, 15, 2) /\ At(s, 17) = ":"
    /\ digitsAt(s, 18, 2)

\* (Z|[+-]\d{2}:\d{2})$ after the time
zoneToEnd(s) ==
    \/ Len(s) = 20 /\ At(s, 20) = "Z"
    \/ /\ Len(s) = 25
       /\ At(s, 20) \in {"+", "-"}
       /\ digitsAt(s, 21, 2) /\ At(s, 23) = ":"
       /\ digitsAt(s, 24, 2)

\* isoPattern.test(val)
isoPattern(val) ==
    /\ dateAtStart(val)
    /\ \/ Len(val) = 10
       \/ timeAfterDate(val) /\ (Len(val) = 19 \/ zoneToEnd(val))

\* a refinement that accepts every text
acceptsAnyText(val) == TRUE

\* the refine of the flexible schema: dateOnly || withTimezone || withoutTimezone
isoRefinement(val) ==
    \/ dateAtStart(val) /\ Len(val) = 10
    \/ dateAtStart(val) /\ timeAfterDate(val) /\ zoneToEnd(val)
    \/ dateAtStart(val) /\ timeAfterDate(val) /\ Len(val) = 19

\* the transform of the flexible schema built with timezone tz (<<>>: none)
transformDateTime(val, tz, instant) ==
    IF isoPattern(val) THEN val
    ELSE parseNaturalDateTime(val, IF tz = <<>> THEN "UTC" ELSE tz[1], instant).datetime

\* the time zone createFlexibleDateTimeSchema is called with for the fields
\* of the tools: none
schemaTimezone == <<>>

\* createFlexibleDateTimeSchema(...), .optional() when required is FALSE, on
\* one argument: [ok, value]
flexibleField(value, required, instant) ==
    IF value.t = "undefined" THEN [ok |-> ~required, value |-> value]
    ELSE IF value.t = "string"
    THEN [ok |-> isoRefinement(transformDateTime(value.v, schemaTimezone, instant)),
          value |-> Str(transformDateTime(value.v, schemaTimezone, instant))]
    ELSE [ok |-> FALSE, value |-> value]

\* new Date(text).getTime() of a text in ISO shape with a date only, or with
\* Z or an offset, in minutes since 2024-01-01T00:00Z
DateParse(text) ==
    LET day == DayNumber(parseInt(SubSeq(text, 1, 4)), parseInt(SubSeq(text, 6, 7)),
                         parseInt(SubSeq(text, 9, 10)))
        clock == IF Len(text) > 10
                 THEN parseInt(SubSeq(text, 12, 13)) * 60 + parseInt(SubSeq(text, 15, 16))
                 ELSE 0
        offset == IF Len(text) = 25
                  THEN (IF At(text, 20) = "-" THEN -1 ELSE 1)
                           * (parseInt(SubSeq(text, 21, 22)) * 60
                                  + parseInt(SubSeq(text, 24, 25)))
                  ELSE 0
    IN day * 1440 + clock - offset

\* new Date().getTime(), in minutes since 2024-01-01T00:00Z
NowMinutes(instant) == instant.day * 1440 + instant.hour * 60

\* a comparison that lets the current instant pass
notEarlier(futureDate, current) == futureDate >= current

\* futureDate > now
laterThan(futureDate, current) == futureDate > current

\* the first refine of the update schema
originalStartTimeRefinement(data) ==
    ~(data.modificationScope = <<"thisEventOnly">> /\ data.originalStartTime.t = "undefined")

\* the second refine of the update schema
futureStartDateRefinement(data) ==
    ~(data.modificationScope = <<"thisAndFollowing">>
          /\ data.futureStartDate.t = "undefined")

\* the third refine of the update schema
futureRefinement(data, instant) ==
    data.futureStartDate.t = "string" =>
        laterThan(DateParse(data.futureStartDate.v), NowMinutes(instant))

\* the date-time fields the schema of a tool requires
requiredFields(tool) ==
    CASE tool \in {"search-google-calendar-events", "get-google-calendar-freebusy"} ->
             {"timeMin"}
      [] tool = "create-google-calendar-event" -> {"start"}
      [] OTHER -> {}

\* the fields of the arguments after their schemas
parsedFields(tool, a, instant) ==
    [k \in DOMAIN a |->
        IF k \in dateTimeFields
        THEN flexibleField(a[k], k \in requiredFields(tool), instant)
        ELSE [ok |-> TRUE, value |-> a[k]]]

\* the arguments schema.parse returns
parsedData(fields) == [k \in DOMAIN fields |-> fields[k].value]

\* the refinements of the schema of the tool, on the parsed arguments
refinements(tool, data, instant) ==
    tool = "update-google-calendar-event" =>
        /\ originalStartTimeRefinement(data)
        /\ futureStartDateRefinement(data)
        /\ futureRefinement(data, instant)

\* tool.schema.parse(args), fields the arguments after their schemas:
\* [ok, data], ok = FALSE when it throws ZodError
schemaParseOf(tool, fields, instant) ==
    IF \A k \in DOMAIN fields : fields[k].ok
    THEN [ok |-> refinements(tool, parsedData(fields), instant),
          data |-> parsedData(fields)]
    ELSE [ok |-> FALSE, data |-> parsedData(fields)]

schemaParse(tool, a, instant) == schemaParseOf(tool, parsedFields(tool, a, instant), instant)

\* the date-time arguments of the requests
DateTimeArguments ==
    {Absent,
     Str("2024-01-20"), Str("2024-01-20T15:30:00"), Str("2024-01-20T15:30:00Z"),
     Str("2024-01-20T15:30:00+05:30"),
     Str("today"), Str("tomorrow 3pm"), Str("Tomorrow"),
     Str("Team Sync"), Str(" 2024-01-20 "), Str("2024-1-20"), Str("20240120"),
     Str("2024-01-20T15:30"), Str("2024-01-20T15:30:00z"), Str(""),
     Obj(<<"2024-01-20">>, <<>>), Obj(<<>>, <<"2024-01-20T15:30:00Z">>),
     Obj(<<"2024-01-21">>, <<"2024-01-20T15:30:00Z">>), Obj(<<>>, <<>>),
     Obj(<<"next year">>, <<>>)}

OriginalStartTimeArguments ==
    {Absent, Str("2024-01-20T10:00:00"), Obj(<<>>, <<"2024-01-20T10:00:00">>)}

FutureStartDateArguments ==
    {Absent, Str("2024-01-20"), Str("2024-01-20T10:00:00Z"),
     Str("2024-01-20T10:00:00-08:00"), Str("today"), Str("tomorrow"),
     Obj(<<"2024-01-21">>, <<>>), Str("later")}

ModificationScopes == {<<>>, <<"all">>, <<"thisEventOnly">>, <<"thisAndFollowing">>}

TimeZoneArguments == {<<>>} \cup {<<z>> : z \in TimeZones}

\* the instants of the requests: 2024-01-19 .. 2024-01-21
SchemaInstants == [day : {18, 19, 20}, hour : {0, 10, 23}]

SchemaInit ==
    /\ schTool \in DateTimeTools
    /\ schArgs \in [calendarId : {Str("primary")},
                    timeZone : TimeZoneArguments,
                    timeMin : DateTimeArguments,
                    start : DateTimeArguments,
                    modificationScope : ModificationScopes,
                    originalStartTime : OriginalStartTimeArguments,
                    futureStartDate : FutureStartDateArguments]
    /\ (schTool \in {"list-google-calendar-events", "search-google-calendar-events",
                     "get-google-calendar-freebusy"} =>
            /\ schArgs.start = Absent
            /\ schArgs.modificationScope = <<>>
            /\ schArgs.originalStartTime = Absent
            /\ schArgs.futureStartDate = Absent)
    /\ (schTool = "create-google-calendar-event" =>
            /\ schArgs.timeMin = Absent
            /\ schArgs.modificationScope = <<>>
            /\ schArgs.originalStartTime = Absent
            /\ schArgs.futureStartDate = Absent)
    /\ (schTool = "update-google-calendar-event" =>
            /\ schArgs.timeMin = Absent
            /\ schArgs.timeZone = <<>>
            /\ schArgs.start \in {Absent, Str("today")})
    /\ schNow \in SchemaInstants
    /\ schPc = "received"
    /\ schNormalized = schArgs
    /\ schValidated = <<>>
    /\ schHandlerCalls = 0
    /\ schOutcome = [kind |-> "none"]
    /\ NormIdle
    /\ CreateIdle
    /\ AuthIdle
    /\ ServerIdle

\* const normalizedArgs = this.normalizeDateTimeFields(tool.name, args)
NormalizeArguments ==
    /\ schPc = "received"
    /\ schNormalized' = normalizeDateTimeFields(schTool, schArgs)
    /\ schPc' = "normalized"
    /\ UNCHANGED <<schTool, schArgs, schNow, schValidated, schHandlerCalls, schOutcome>>
    /\ UNCHANGED normVars
    /\ UNCHANGED createVars
    /\ UNCHANGED authVars
    /\ UNCHANGED serverVars

\* the outcome of tool.schema.parse
Validate(result) ==
    IF result.ok
    THEN /\ schValidated' = <<result.data>>
         /\ schPc' = "validated"
         /\ UNCHANGED schOutcome
    ELSE /\ schPc' = "rejected"
         /\ schOutcome' = [kind |-> "ZodError"]
         /\ UNCHANGED schValidated

\* const validatedArgs = tool.schema.parse(normalizedArgs)
SchemaParse ==
    /\ schPc = "normalized"
    /\ Validate(schemaParse(schTool, schNormalized, schNow))
    /\ UNCHANGED <<schTool, schArgs, schNow, schNormalized, schHandlerCalls>>
    /\ UNCHANGED normVars
    /\ UNCHANGED createVars
    /\ UNCHANGED authVars
    /\ UNCHANGED serverVars

\* return executeWithHandler(handler, processedArgs)
CallHandler ==
    /\ schPc = "validated"
    /\ schHandlerCalls' = schHandlerCalls + 1
    /\ schPc' = "handled"
    /\ schOutcome' = [kind |-> "result"]
    /\ UNCHANGED <<schTool, schArgs, schNow, schNormalized, schValidated>>
    /\ UNCHANGED normVars
    /\ UNCHANGED createVars
    /\ UNCHANGED authVars
    /\ UNCHANGED serverVars

SchemaNext ==
    \/ NormalizeArguments
    \/ SchemaParse
    \/ CallHandler

SchemaSpec == SchemaInit /\ [][SchemaNext]_vars

(***************************************************************************)
(* Properties of the normalizer.                                           *)
(***************************************************************************)
\* the calendar day (day number) of the current instant in the time zone
TodayIn(instant, tz) == (instant.day * 24 + instant.hour + TimeZoneOffset(tz)) \div 24

\* the text YYYY-MM-DD of a day number
DateText(day) == FormatDate([day |-> day, hour |-> 0, minute |-> 0])

\* the date part of a result
DatePart(r) == SubSeq(r.datetime, 1, 10)

\* the first day strictly after `day` that falls on weekday w (0 is Sunday)
NextWeekday(day, w) == CHOOSE d \in (day + 1)..(day + 7) : (d + 1) % 7 = w

\* the hour the stated hour h stands for under a meridiem marker
StatedHour(h, mer) ==
    CASE mer \in {"pm", " pm", "P.M."} -> IF h = 12 THEN 12 ELSE h + 12
      [] mer \in {"am", "a.m."} -> IF h = 12 THEN 0 ELSE h
      [] OTHER -> h

\* the minutes a minute text states, 0 when there is none
StatedMinutes(m) ==
    CASE m = "" -> 0
      [] m = ":05" -> 5
      [] m = ":30" -> 30
      [] m = ":75" -> 75

\* HH:mm:00 of an hour below 24 and minutes below 60
ClockText(h, m) == padStart2(h) \o ":" \o padStart2(m) \o ":00"

\* C2: normalization is idempotent: normalizing the datetime a call returned,
\* at the same instant and in the same time zone, returns the same datetime
\* and the same all-day flag.
C2_Idempotent ==
    normPc = "reparsed" =>
        /\ reparsed.datetime = parsed.datetime
        /\ reparsed.isAllDay = parsed.isAllDay

C2_Witness ==
    /\ normPc = "reparsed"
    /\ input = "today 8pm"
    /\ timezone = "UTC"
    /\ now = [day |-> 14, hour |-> 10]
    /\ parsed = [datetime |-> "2024-01-15T20:00:00", isAllDay |-> FALSE]
    /\ reparsed = parsed

\* C3: "in N days H(:MM)?(am|pm)" gives the date N days ahead at the stated
\* time of day, not all-day; N is never taken as the hour.
C3_RelativeDayWithTime ==
    \A n \in 0..MaxRelDays :
        /\ (normPc # "call" /\ input = RelativePhrase(n) \o " 4pm") =>
               parsed = [datetime |-> DateText(TodayIn(now, timezone) + n)
                                          \o "T" \o ClockText(16, 0),
                         isAllDay |-> FALSE]
        /\ (normPc # "call" /\ input = RelativePhrase(n) \o " 2:30pm") =>
               parsed = [datetime |-> DateText(TodayIn(now, timezone) + n)
                                          \o "T" \o ClockText(14, 30),
                         isAllDay |-> FALSE]

\* C4: an input that matches an anchor pattern and states no time gives the
\* bare anchor date, all-day; "in N days" gives the date N days ahead.
C4_AnchorWithoutTimeIsAllDay ==
    normPc # "call" =>
        /\ input = "today" =>
               parsed = [datetime |-> DateText(TodayIn(now, timezone)), isAllDay |-> TRUE]
        /\ input = "tomorrow" =>
               parsed = [datetime |-> DateText(TodayIn(now, timezone) + 1), isAllDay |-> TRUE]
        /\ input = "yesterday" =>
               parsed = [datetime |-> DateText(TodayIn(now, timezone) - 1), isAllDay |-> TRUE]
        /\ \A n \in 0..MaxRelDays :
               input = RelativePhrase(n) =>
                   parsed = [datetime |-> DateText(TodayIn(now, timezone) + n),
                             isAllDay |-> TRUE]
        /\ \A i \in 1..7 :
               input = dayNames[i] =>
                   parsed = [datetime |-> DateText(NextWeekday(TodayIn(now, timezone), i - 1)),
                             isAllDay |-> TRUE]

C6_TimeOfDayConversion ==
    \A h \in HourValues : \A m \in MinuteTexts : \A mer \in MeridiemTexts :
        (normPc # "call" /\ input = "today " \o TimeText(h, m, mer)) =>
            /\ parsed.isAllDay = FALSE
            /\ parsed.datetime =
                   FormatDateTime(setHours([day |-> TodayIn(now, timezone),
                                            hour |-> 0, minute |-> 0],
                                           StatedHour(h, mer), StatedMinutes(m)))

C6_Witness ==
    /\ normPc = "parsed"
    /\ input = "today 12am"
    /\ timezone = "UTC"
    /\ now = [day |-> 14, hour |-> 10]
    /\ parsed = [datetime |-> "2024-01-15T00:00:00", isAllDay |-> FALSE]

\* C7: an input that matches none of the anchor patterns (an ISO-8601 date or
\* datetime, free text) is returned unchanged, all-day exactly when it holds
\* no capital T.
C7_PassthroughUnchanged ==
    (normPc # "call" /\ input \in PassthroughInputs) =>
        /\ parsed.datetime = input
        /\ parsed.isAllDay = (\A i \in 1..Len(input) : At(input, i) # "T")

C7_Witness ==
    /\ normPc = "parsed"
    /\ input = "2024-01-20T15:30:00+05:30"
    /\ parsed = [datetime |-> "2024-01-20T15:30:00+05:30", isAllDay |-> FALSE]

\* the offset in days of the anchor of the earliest pattern a phrase of
\* MultiPatternInputs matches, in the order today, tomorrow, yesterday,
\* relative, weekday
EarliestAnchorOffset(text) ==
    CASE text \in {"friday today", "today tomorrow"} -> 0
      [] text \in {"tomorrow yesterday", "yesterday tomorrow", "tomorrow friday"} -> 1
      [] text \in {"monday yesterday", "in 2 days yesterday"} -> -1
      [] text \in {"friday in 2 days", "in 2 days friday"} -> 2

\* C8: the patterns are tried in the order today, tomorrow, yesterday,
\* relative, weekday and the first that matches gives the anchor; capitals
\* and white space around a phrase do not change its result.
C8_FirstMatchWinsAnyCase ==
    normPc # "call" =>
        /\ input \in MultiPatternInputs =>
               DatePart(parsed) = DateText(TodayIn(now, timezone) + EarliestAnchorOffset(input))
        /\ \A v \in VariantPairs :
               input = v[1] => parsed = parseNaturalDateTime(v[2], timezone, now)

C8_Witness ==
    /\ normPc = "parsed"
    /\ input = "friday today"
    /\ timezone = "UTC"
    /\ now = [day |-> 14, hour |-> 10]
    /\ parsed = [datetime |-> "2024-01-15", isAllDay |-> TRUE]

\* the offset in days of the anchor of a phrase of one pattern
AnchorOffset(phrase, today) ==
    CASE phrase = "today" -> 0
      [] phrase = "tomorrow" -> 1
      [] phrase = "yesterday" -> -1
      [] phrase \in RelativePhrases ->
             CHOOSE n \in 0..MaxRelDays : phrase = RelativePhrase(n)
      [] phrase \in DayNamePhrases ->
             NextWeekday(today, (CHOOSE i \in 1..7 : phrase = dayNames[i]) - 1) - today

\* C9: the anchor date is counted from the calendar date of the current
\* instant in the supplied time zone, also when that is not the UTC date.
C9_AnchorInTimezone ==
    \A a \in AnchorPhrases : \A t \in AnchorTimes :
        (normPc # "call" /\ input = a \o t) =>
            DatePart(parsed) =
                DateText(TodayIn(now, timezone) + AnchorOffset(a, TodayIn(now, timezone)))

\* 23:00 UTC on 2024-01-15 is already 2024-01-16 in Tokyo
C9_Witness ==
    /\ normPc = "parsed"
    /\ input = "today"
    /\ timezone = "Asia/Tokyo"
    /\ now = [day |-> 14, hour |-> 23]
    /\ TodayIn(now, timezone) # now.day
    /\ parsed = [datetime |-> "2024-01-16", isAllDay |-> TRUE]

\* the two digits of a text at position p, as a number
TwoDigitsAt(s, p) == parseInt(SubSeq(s, p, p + 1))

\* C28: for an input that matches an anchor pattern and holds a time, the
\* result is {date}T{HH}:{mm}:00 with {date} the anchor date, HH in 00..23
\* and mm in 00..59: no hour or minute digits move it to another date.
C28_TimeKeepsAnchorDate ==
    (normPc # "call" /\ input \in TodayTimeInputs) =>
        /\ parsed.isAllDay = FALSE
        /\ Len(parsed.datetime) = 19
        /\ DatePart(parsed) = DateText(TodayIn(now, timezone))
        /\ SubSeq(parsed.datetime, 11, 11) = "T"
        /\ TwoDigitsAt(parsed.datetime, 12) \in 0..23
        /\ TwoDigitsAt(parsed.datetime, 15) \in 0..59
        /\ SubSeq(parsed.datetime, 17, 19) = ":00"

(***************************************************************************)
(* Properties of the create-event handler.                                 *)
(***************************************************************************)
\* the report holds a duplicate at or above the blocking threshold
HasBlockingDuplicate ==
    \E i \in 1..Len(conflicts.duplicates) : conflicts.duplicates[i].similarity >= BLOCKING

\* the call ended with the duplicate error of runTool
BlockedAsDuplicate ==
    createPc = "failed" /\ outcome.kind = "error" /\ outcome.from = "runTool"

\* C1: when the report holds a duplicate at or above the blocking threshold
\* and allowDuplicates is not true, the call fails and events.insert is not
\* called: no state of the call is past the decision, none has an insert.
C1_NoInsertAfterBlockingDuplicate ==
    (HasBlockingDuplicate /\ args.allowDuplicates # "true") =>
        /\ insertCalls = 0
        /\ createPc \in {"detected", "failed"}
        /\ (createPc = "failed" => BlockedAsDuplicate)

C1_Witness ==
    /\ BlockedAsDuplicate
    /\ HasBlockingDuplicate
    /\ args.allowDuplicates = "undefined"
    /\ insertCalls = 0

\* C10: the error of a refused creation carries the top duplicate's
\* identifier, its title, its similarity as a rounded percentage, its
\* suggestion and the override instruction.
C10_BlockedErrorCarriesDuplicate ==
    BlockedAsDuplicate =>
        LET top == conflicts.duplicates[1]
        IN /\ includes(outcome.message, top.id)
           /\ includes(outcome.message, top.title)
           /\ includes(outcome.message, NumberToString(RoundPercent(top.similarity)) \o "%")
           /\ includes(outcome.message, top.suggestion)
           /\ includes(outcome.message, "allowDuplicates")

\* checkConflicts returned its report to runTool
DetectionReturned ==
    \/ createPc \in {"detected", "creating", "inserting", "done"}
    \/ (createPc = "failed" /\ outcome.from # "checkConflicts")

\* C11: creation is never refused for a temporal conflict alone: when the
\* duplicate list of the report has no entry at or above the blocking
\* threshold, runTool does not throw the duplicate error, whatever the
\* conflict list holds.
C11_ConflictAloneNeverBlocks ==
    ~HasBlockingDuplicate => ~BlockedAsDuplicate

C11_Witness ==
    /\ createPc = "done"
    /\ conflicts.conflicts # <<>>
    /\ ~HasBlockingDuplicate
    /\ args.allowDuplicates # "true"

\* the structured list holds the entries of the report's list, in its order
SameEntries(structured, list) ==
    /\ Len(structured) = Len(list)
    /\ \A i \in 1..Len(list) :
        /\ structured[i].event.id = list[i].id
        /\ structured[i].event.title = list[i].title
        /\ structured[i].event.similarity = list[i].similarity
        /\ structured[i].suggestion = list[i].suggestion

\* C12: when the report has no duplicate at or above the blocking threshold,
\* or allowDuplicates is true, runTool does not refuse: it goes on to
\* createEvent, fails only with createEvent's own error, and a finished call
\* made one insert and returned the event with the report's whole conflict
\* list and whole duplicate list.
C12_UnblockedCreationReturnsLists ==
    (DetectionReturned /\ (args.allowDuplicates = "true" \/ ~HasBlockingDuplicate)) =>
        /\ ~BlockedAsDuplicate
        /\ createPc = "failed" => outcome.from = "createEvent"
        /\ createPc \in {"creating", "inserting"} => outcome.kind = "none"
        /\ createPc = "done" =>
            /\ insertCalls = 1
            /\ outcome.kind = "response"
            /\ outcome.event = eventToCheck(args)
            /\ SameEntries(outcome.conflicts, conflicts.conflicts)
            /\ SameEntries(outcome.duplicates, conflicts.duplicates)

C12_Witness ==
    /\ createPc = "done"
    /\ HasBlockingDuplicate
    /\ args.allowDuplicates = "true"
    /\ Len(outcome.duplicates) >= 2
    /\ outcome.conflicts # <<>>

\* C13: the threshold passed to the detector is the caller's
\* duplicateSimilarityThreshold whenever the caller gave one (0 included),
\* and the default only when the caller gave none.
C13_DetectorGetsCallersThreshold ==
    detectorThreshold # <<>> =>
        detectorThreshold[1] =
            (IF args.duplicateSimilarityThreshold = <<>>
             THEN DEFAULT_DUPLICATE_THRESHOLD
             ELSE args.duplicateSimilarityThreshold[1])

\* C14: the blocking threshold is never lower than the threshold used for
\* the detection call, and every fetched event scoring at or above the
\* blocking threshold is in the duplicate list of the report.
C14_BlockingNotBelowDetection ==
    /\ detectorThreshold # <<>> => BLOCKING >= detectorThreshold[1]
    /\ DetectionReturned =>
        \A i \in 1..Len(arrived) :
            arrived[i].similarity >= BLOCKING =>
                \E j \in 1..Len(conflicts.duplicates) :
                    conflicts.duplicates[j].id = arrived[i].id

\* C15: a candidate whose end is before its start is rejected with a
\* validation error before any fetch: no fetch of existing events is
\* issued and no insert is made for it.
C15_MalformedRejectedBeforeFetch ==
    (args.end < Candidate.start /\ createPc # "start") =>
        /\ createPc = "failed"
        /\ outcome.kind = "error"
        /\ outcome.message = "ValidationError"
        /\ fetchCalls = 0
        /\ insertCalls = 0

C15_Witness ==
    /\ args.end < Candidate.start
    /\ createPc = "failed"
    /\ outcome.message = "ValidationError"
    /\ calendar # {}
    /\ fetchCalls = 0

\* the fetches of the call are joined
Joined == createPc \notin {"start", "fetching"} /\ requested # {}

\* the events of the calendars whose fetch succeeded
FetchedEvents == {e \in calendar : e.calendarId \in succeeded}

\* the identifiers of a list of the report
IdsOf(list) == {list[i].id : i \in 1..Len(list)}

\* C16: fetch failures are absorbed per calendar: when at least one
\* requested calendar answered, detection returns the report of the
\* calendars that answered and no error; when every requested calendar
\* failed, it signals DetectionUnavailable and returns no report; calendars
\* that answer with no event give an empty report and no error.
C16_FetchFailuresAbsorbed ==
    Joined =>
        /\ succeeded # {} =>
            /\ DetectionReturned
            /\ IdsOf(conflicts.duplicates) =
                 {e.id : e \in {f \in FetchedEvents :
                                   f.similarity >= detectorThreshold[1]}}
            /\ IdsOf(conflicts.conflicts) =
                 {e.id : e \in {f \in FetchedEvents :
                                   Candidate.start < f.end /\ f.start < Candidate.end}}
        /\ succeeded = {} =>
            /\ createPc = "failed"
            /\ outcome.kind = "error"
            /\ outcome.message = "DetectionUnavailable"
            /\ insertCalls = 0
        /\ (succeeded # {} /\ FetchedEvents = {}) =>
            /\ DetectionReturned
            /\ conflicts = [conflicts |-> <<>>, duplicates |-> <<>>]

C16_Witness ==
    /\ createPc = "detected"
    /\ requested = {"primary", "work"}
    /\ succeeded = {"work"}
    /\ \E e \in calendar : e.calendarId = "primary"
    /\ conflicts.duplicates # <<>>

\* the events of a set in the order of the report: descending score, ties
\* by the earlier start
RECURSIVE SortByScore(_)
SortByScore(S) ==
    IF S = {} THEN <<>>
    ELSE LET top == CHOOSE e \in S : \A f \in S \ {e} : ScoredBefore(e, f)
         IN <<top>> \o SortByScore(S \ {top})

\* the identifiers of a list, in its order
IdList(list) == [i \in 1..Len(list) |-> list[i].id]

Intervals ==
    {[start |-> e.start, end |-> e.end] : e \in EventPool}
        \cup {[start |-> Candidate.start, end |-> Candidate.end]}

\* some hour lies in both [a.start, a.end) and [b.start, b.end)
ShareAnHour(a, b) ==
    \E t \in a.start..(a.end - 1) : b.start <= t /\ t < b.end

\* C18: the conflict test is the overlap of half-open intervals: the
\* conflict list of the report holds exactly the fetched events that share
\* an hour with the candidate, an event ending when the other starts is no
\* conflict, and the test gives the same answer with the two roles swapped.
C18_HalfOpenSymmetricOverlap ==
    createPc = "detected" =>
        /\ \A i \in 1..Len(arrived) :
            (arrived[i].id \in IdsOf(conflicts.conflicts))
                <=> ShareAnHour(eventToCheck(args), arrived[i])
        /\ \A a, b \in Intervals :
            /\ overlaps(a, b) <=> ShareAnHour(a, b)
            /\ overlaps(a, b) <=> overlaps(b, a)
            /\ a.end = b.start => ~overlaps(a, b)

\* the report leaves out an event ending when the candidate starts and an
\* event starting when the candidate ends, and holds an overlapping one
C18_Witness ==
    /\ createPc = "detected"
    /\ \E i \in 1..Len(arrived) : arrived[i].end = Candidate.start
    /\ \E i \in 1..Len(arrived) : arrived[i].start = Candidate.end
    /\ Len(conflicts.conflicts) = 1

(***************************************************************************)
(* Properties of getAuthenticatedClient.                                   *)
(***************************************************************************)
\* C19: called with an empty user id or an empty provider,
\* getAuthenticatedClient rejects with an McpError whose message is
\* '[AUTH_ERROR] user_id and provider are required parameters' and
\* getOAuthTokens is not called.
C19_MissingParametersRejected ==
    (authPc # "start" /\ (user_id = "" \/ provider = "")) =>
        /\ authPc = "rejected"
        /\ authOutcome.kind = "McpError"
        /\ authOutcome.message = "[AUTH_ERROR] user_id and provider are required parameters"
        /\ storeCalls = 0

C19_Witness ==
    /\ authPc = "rejected"
    /\ user_id = "user123"
    /\ provider = ""
    /\ version = "utils"
    /\ storeCalls = 0

\* the store's response holds an access token for the requested provider
HoldsAccessToken ==
    LET tokens == IF provider = "google" THEN tokenResponse.tokens.google
                  ELSE tokenResponse.tokens.microsoft
    IN /\ tokens # <<>>
       /\ tokens[1].access_token \notin {<<>>, <<"">>}

\* the store's response is looked at
StoreAnswered == storeCalls = 1 /\ authPc # "fetching"

C30_InsertOnlyAfterDetection ==
    /\ insertCalls <= 1
    /\ (createPc \in {"inserting", "done"} \/ insertCalls > 0) =>
        /\ detectorThreshold # <<>>
        /\ requested # {}
        /\ pending = {}
        /\ succeeded # {}
    /\ (outcome.kind = "error" /\ outcome.from = "checkConflicts") =>
        /\ createPc = "failed"
        /\ insertCalls = 0

C30_Witness ==
    /\ createPc = "failed"
    /\ outcome.message = "DetectionUnavailable"
    /\ requested = {"primary", "work"}
    /\ calendar # {}
    /\ insertCalls = 0

(***************************************************************************)
(* Properties of a tool request through a server.                          *)
(***************************************************************************)
\* executeWithHandler has run in the token-parameter server
TokenParametersRead == serverKind = "params" /\ srvPc \in {"authenticated", "done", "failed"}

\* the token parameter is a text starting with "{" that is not JSON
Malformed(raw) == looksLikeJson(raw) /\ ~JSONparse(raw[1]).ok

\* C21: in the token-parameter server, a token parameter given as the
\* JSON-encoded token response is replaced by the google entry's field of the
\* same name (expires_at for expiry_date) in the credentials set, and runTool
\* is called with the arguments minus access_token, refresh_token and
\* expiry_date, the others unchanged.
C21_EncodedTokensReplaced ==
    /\ (serverKind = "params" /\ credentials # <<>>) =>
        /\ (get(handlerArgs, "access_token") = <<TokenResponseText>>) =>
                credentials[1].access_token = <<"ya29.test_access_token">>
        /\ (get(handlerArgs, "refresh_token") = <<TokenResponseText>>) =>
                credentials[1].refresh_token = <<"1//test_refresh_token">>
        /\ (get(handlerArgs, "expiry_date") = <<TokenResponseText>>) =>
                credentials[1].expiry_date = <<"1763010691">>
    /\ (serverKind = "params" /\ runToolArgs # <<>>) =>
        /\ DOMAIN runToolArgs[1] =
               (DOMAIN handlerArgs) \ {"access_token", "refresh_token", "expiry_date"}
        /\ \A k \in DOMAIN runToolArgs[1] : runToolArgs[1][k] = handlerArgs[k]

\* C22: in the token-parameter server, a token parameter that starts with
\* "{" and is not JSON does not fail the call: the malformed parameter keeps
\* the value it was given, the only errors are those of the credentials check
\* and of the client's initialization, and a malformed access token next to a
\* plain refresh token passes the credentials check.
C22_MalformedTokenAbsorbed ==
    (TokenParametersRead
        /\ \E k \in {"access_token", "refresh_token", "expiry_date"} :
               Malformed(get(handlerArgs, k))) =>
        /\ srvPc = "failed" =>
               srvOutcome.message \in
                   {AuthRequiredError.message, "OAuth2 client initialization failed"}
        /\ credentials # <<>> =>
               /\ Malformed(get(handlerArgs, "access_token")) =>
                      credentials[1].access_token = handlerArgs.access_token
               /\ Malformed(get(handlerArgs, "refresh_token")) =>
                      credentials[1].refresh_token = handlerArgs.refresh_token
               /\ Malformed(get(handlerArgs, "expiry_date")) =>
                      credentials[1].expiry_date = <<"NaN">>
        /\ (Malformed(get(handlerArgs, "access_token"))
                /\ get(handlerArgs, "refresh_token") = <<"1//simple_refresh_token">>) =>
               srvOutcome # AuthRequiredError

\* the handler has run for a request whose access token was malformed
C22_Witness ==
    /\ serverKind = "params"
    /\ srvPc = "done"
    /\ runToolCalls = 1
    /\ get(handlerArgs, "access_token") = <<MalformedText>>
    /\ get(handlerArgs, "refresh_token") = <<"1//simple_refresh_token">>
    /\ credentials[1].access_token = <<MalformedText>>

\* C26: in the three servers runTool is called only with credentials
\* obtained: with both tokens in the token-parameter server, with a token
\* given or the stored tokens valid in the stored-token server, with the
\* client of getAuthenticatedClient in the FastMCP server. A request whose
\* authentication failed has ended in an error and has called no runTool.
C26_RunToolOnlyWithCredentials ==
    /\ runToolCalls <= 1
    /\ (runToolCalls > 0 \/ srvPc = "done") =>
        /\ credentials # <<>>
        /\ serverKind = "params" =>
               given(credentials[1].access_token) /\ given(credentials[1].refresh_token)
        /\ serverKind = "stored" =>
               \/ given(get(handlerArgs, "access_token"))
               \/ given(get(handlerArgs, "refresh_token"))
               \/ storedTokensValid
    /\ (srvPc \in {"authenticated", "done", "failed"} /\ credentials = <<>>) =>
        /\ srvPc = "failed"
        /\ srvOutcome.kind \in {"McpError", "Error"}
        /\ runToolCalls = 0
        /\ runToolArgs = <<>>

\* the stored-token server has rejected a request without tokens
C26_Witness ==
    /\ serverKind = "stored"
    /\ ~storedTokensValid
    /\ srvPc = "failed"
    /\ srvOutcome = AuthRequiredError
    /\ credentials = <<>>
    /\ runToolCalls = 0

\* C27: when the tool has a handlerFunction, runTool receives its output: a
\* calendarId given as a text that reads as a list reaches runTool as the
\* array of 1 to 50 different non-empty strings, in the servers entered
\* through registerAll and in the FastMCP server.
C27_RunToolGetsProcessedArguments ==
    (runToolArgs # <<>> /\ srvPc = "done"
        /\ toolName = "list-google-calendar-events"
        /\ looksLikeList(request.calendarId)) =>
        /\ runToolArgs[1].calendarId.t = "array"
        /\ Len(runToolArgs[1].calendarId.v) \in 1..MaxCalendarIds
        /\ \A i \in 1..Len(runToolArgs[1].calendarId.v) :
               runToolArgs[1].calendarId.v[i] # ""
        /\ \A i, j \in 1..Len(runToolArgs[1].calendarId.v) :
               i # j => runToolArgs[1].calendarId.v[i] # runToolArgs[1].calendarId.v[j]

(***************************************************************************)
(* Properties of the validation of a tool request.                         *)
(***************************************************************************)
\* text has the shape of tpl: d a digit, s a sign, any other character itself
MatchesTemplate(text, tpl) ==
    /\ Len(text) = Len(tpl)
    /\ \A i \in 1..Len(tpl) :
           CASE At(tpl, i) = "d" -> IsDigit(At(text, i))
             [] At(tpl, i) = "s" -> At(text, i) \in {"+", "-"}
             [] OTHER -> At(text, i) = At(tpl, i)

\* YYYY-MM-DD, YYYY-MM-DDTHH:mm:ss or YYYY-MM-DDTHH:mm:ss(Z|+HH:MM|-HH:MM)
IsoShaped(text) ==
    \E tpl \in {"dddd-dd-dd", "dddd-dd-ddTdd:dd:dd", "dddd-dd-ddTdd:dd:ddZ",
                "dddd-dd-ddTdd:dd:ddsdd:dd"} : MatchesTemplate(text, tpl)

\* texts that are not in ISO shape and name no day the parser knows
UnrecognizedTexts ==
    {"Team Sync", " 2024-01-20 ", "2024-1-20", "20240120", "2024-01-20T15:30",
     "2024-01-20T15:30:00z", "", "later", "next year"}

\* schema.parse has returned or thrown
SchemaParsed == schPc \in {"validated", "handled", "rejected"}

SchemaAccepted == schPc \in {"validated", "handled"}

\* C23: every date-time value schema.parse returns is in ISO shape; a value
\* given in ISO shape is returned as it was given; a request with a date-time
\* text that is not in ISO shape and that the parser does not recognize is
\* rejected, and no handler is called for it.
C23_SchemaOutputsIsoShape ==
    /\ SchemaAccepted =>
        \A k \in dateTimeFields :
            /\ schValidated[1][k].t \in {"undefined", "string"}
            /\ schValidated[1][k].t = "string" => IsoShaped(schValidated[1][k].v)
            /\ (schNormalized[k].t = "string" /\ IsoShaped(schNormalized[k].v)) =>
                   schValidated[1][k] = schNormalized[k]
    /\ (SchemaParsed
            /\ \E k \in dateTimeFields :
                   /\ schNormalized[k].t = "string"
                   /\ schNormalized[k].v \in UnrecognizedTexts) =>
        /\ schPc = "rejected"
        /\ schValidated = <<>>
        /\ schHandlerCalls = 0
    /\ schHandlerCalls > 0 => schValidated # <<>>

\* a request whose timeMin is free text has been rejected
C23_Witness ==
    /\ schPc = "rejected"
    /\ schTool = "list-google-calendar-events"
    /\ schArgs.timeMin = Str("Team Sync")
    /\ schOutcome.kind = "ZodError"
    /\ schHandlerCalls = 0

\* C24: "today" as timeMin or start of a request that carries a timeZone is
\* resolved to the current date in that time zone.
C24_TodayInRequestTimeZone ==
    \A k \in {"timeMin", "start"} :
        (SchemaAccepted /\ schArgs[k] = Str("today") /\ schArgs.timeZone # <<>>) =>
            schValidated[1][k] = Str(DateText(TodayIn(schNow, schArgs.timeZone[1])))

\* the instant a futureStartDate argument of the model stands for, in
\* minutes since 2024-01-01T00:00Z (-1: none)
FutureMinutes(arg, instant) ==
    CASE arg = Str("2024-01-20") -> 19 * 1440
      [] arg = Str("2024-01-20T10:00:00Z") -> 19 * 1440 + 600
      [] arg = Str("2024-01-20T10:00:00-08:00") -> 19 * 1440 + 1080
      [] arg = Str("today") -> instant.day * 1440
      [] arg = Str("tomorrow") -> (instant.day + 1) * 1440
      [] arg = Obj(<<"2024-01-21">>, <<>>) -> 20 * 1440
      [] OTHER -> -1

\* the request breaks one of the three rules of the update schema
BreaksUpdateRule ==
    \/ schArgs.modificationScope = <<"thisEventOnly">> /\ schArgs.originalStartTime = Absent
    \/ schArgs.modificationScope = <<"thisAndFollowing">> /\ schArgs.futureStartDate = Absent
    \/ /\ schArgs.futureStartDate # Absent
       /\ FutureMinutes(schArgs.futureStartDate, schNow)
              <= schNow.day * 1440 + schNow.hour * 60

\* C25: an update request that breaks one of the three rules (thisEventOnly
\* without originalStartTime, thisAndFollowing without futureStartDate, a
\* futureStartDate not strictly later than the current time) is rejected and
\* no handler is called; an accepted request breaks none.
C25_UpdateRefinements ==
    (schTool = "update-google-calendar-event" /\ SchemaParsed) =>
        /\ SchemaAccepted => ~BreaksUpdateRule
        /\ BreaksUpdateRule =>
               /\ schPc = "rejected"
               /\ schOutcome.kind = "ZodError"
               /\ schHandlerCalls = 0

\* an update whose futureStartDate is the current instant has been rejected
C25_Witness ==
    /\ schTool = "update-google-calendar-event"
    /\ schPc = "rejected"
    /\ schArgs.modificationScope = <<"thisAndFollowing">>
    /\ schArgs.futureStartDate = Str("2024-01-20")
    /\ schArgs.originalStartTime = Absent
    /\ schArgs.start = Absent
    /\ schNow = [day |-> 19, hour |-> 0]
    /\ schHandlerCalls = 0

\* C29: for every tool with date-time fields, before validation a date-time
\* field given as an object with a date or a dateTime is the text of its date,
\* or of its dateTime when it has no date, and every other argument and every
\* field given as text is as it was given.
C29_ObjectFieldsBecomeText ==
    schPc # "received" =>
        \A k \in DOMAIN schArgs :
            IF k \in dateTimeFields /\ schArgs[k].t = "object"
            THEN /\ given(schArgs[k].date) => schNormalized[k] = Str(schArgs[k].date[1])
                 /\ (~given(schArgs[k].date) /\ given(schArgs[k].dateTime)) =>
                        schNormalized[k] = Str(schArgs[k].dateTime[1])
            ELSE schNormalized[k] = schArgs[k]

====
